---- MODULE Spec2Model ----
(***************************************************************************)
(* Model of the content-change detection engine of the website monitoring  *)
(* agent (src/src/modules/content_comparator.py).                          *)
(*                                                                         *)
(* A text is a sequence of characters; a character is a one-element        *)
(* string.  A line is a text without line break, a document (the list the  *)
(* code calls lines_old / lines_new) is a sequence of lines.  difflib is   *)
(* modelled by its algorithm (SequenceMatcher.find_longest_match,          *)
(* get_matching_blocks, get_opcodes, get_grouped_opcodes, unified_diff),   *)
(* the regular expressions by a small backtracking matcher.                *)
(***************************************************************************)
EXTENDS Integers, Sequences, FiniteSets, TLC

\* ------------------------------------------------------------------------
\* Characters
\* ------------------------------------------------------------------------

\* The line break str.splitlines() splits at.
NL == "\n"

\* A lone surrogate code point: a character of a Python str that
\* str.encode() (UTF-8, strict) cannot encode.
SURROGATE == "\\ud800"

\* Characters str.split() and str.strip() treat as white space (inside a line).
Whitespace == {" ", "\t"}

Digits == {"0", "1", "2", "3", "4", "5", "6", "7", "8", "9"}

\* str.lower() on the letters the model uses.
LowerMap ==
    [c \in {"A", "B", "C", "D", "E", "F", "G", "H", "I", "J", "K", "L", "M",
            "N", "O", "P", "Q", "R", "S", "T", "U", "V", "W", "X", "Y", "Z"} |->
        CASE c = "A" -> "a" [] c = "B" -> "b" [] c = "C" -> "c" [] c = "D" -> "d"
          [] c = "E" -> "e" [] c = "F" -> "f" [] c = "G" -> "g" [] c = "H" -> "h"
          [] c = "I" -> "i" [] c = "J" -> "j" [] c = "K" -> "k" [] c = "L" -> "l"
          [] c = "M" -> "m" [] c = "N" -> "n" [] c = "O" -> "o" [] c = "P" -> "p"
          [] c = "Q" -> "q" [] c = "R" -> "r" [] c = "S" -> "s" [] c = "T" -> "t"
          [] c = "U" -> "u" [] c = "V" -> "v" [] c = "W" -> "w" [] c = "X" -> "x"
          [] c = "Y" -> "y" [] c = "Z" -> "z"]

LowerChar(c) == IF c \in DOMAIN LowerMap THEN LowerMap[c] ELSE c

\* ------------------------------------------------------------------------
\* Sequence helpers (Python slices and list operations)
\* ------------------------------------------------------------------------

Max2(x, y) == IF x >= y THEN x ELSE y

Min2(x, y) == IF x <= y THEN x ELSE y

\* s[lo:hi] with 0-based Python bounds, 0 <= lo, hi possibly beyond the end.
Slice(s, lo, hi) ==
    IF Min2(hi, Len(s)) <= lo THEN << >> ELSE SubSeq(s, lo + 1, Min2(hi, Len(s)))

\* s.startswith(prefix)
StartsWith(s, prefix) ==
    /\ Len(s) >= Len(prefix)
    /\ \A k \in 1..Len(prefix) : s[k] = prefix[k]

\* list.remove(x): delete the first element equal (by value) to x.
RemoveFirst(s, x) ==
    LET hit == {k \in 1..Len(s) : s[k] = x}
    IN  IF hit = {} THEN s
        ELSE LET p == CHOOSE k \in hit : \A m \in hit : k <= m
             IN  SubSeq(s, 1, p - 1) \o SubSeq(s, p + 1, Len(s))

\* ------------------------------------------------------------------------
\* str methods used by _normalize_content and by the diff analysis
\* ------------------------------------------------------------------------

\* content.splitlines(): the lines of the text, line breaks removed; a final
\* line break opens no further (empty) line.  Line k ends before the k-th
\* line break, the last line at the end of the text.
SplitLines(content) ==
    LET breaks == {p \in 1..Len(content) : content[p] = NL}
        ends   == breaks \cup (IF content # << >> /\ content[Len(content)] # NL
                               THEN {Len(content) + 1} ELSE {})
        EndOf(k)   == CHOOSE e \in ends : Cardinality({f \in ends : f <= e}) = k
        StartOf(k) == IF k = 1 THEN 1 ELSE EndOf(k - 1) + 1
    IN  [k \in 1..Cardinality(ends) |-> SubSeq(content, StartOf(k), EndOf(k) - 1)]

\* line.lower()
Lower(line) == [k \in 1..Len(line) |-> LowerChar(line[k])]

\* line.strip()
RECURSIVE LStrip(_)
LStrip(line) ==
    IF line # << >> /\ Head(line) \in Whitespace THEN LStrip(Tail(line)) ELSE line

RECURSIVE RStrip(_)
RStrip(line) ==
    IF line # << >> /\ line[Len(line)] \in Whitespace
    THEN RStrip(SubSeq(line, 1, Len(line) - 1))
    ELSE line

Strip(line) == RStrip(LStrip(line))

\* ' '.join(line.split()): every run of white space becomes one blank, and
\* leading and trailing white space goes.
RECURSIVE CollapseFrom(_, _)
CollapseFrom(line, k) ==
    IF k > Len(line) THEN << >>
    ELSE IF line[k] \in Whitespace
         THEN IF k > 1 /\ line[k - 1] \in Whitespace
              THEN CollapseFrom(line, k + 1)
              ELSE << " " >> \o CollapseFrom(line, k + 1)
         ELSE << line[k] >> \o CollapseFrom(line, k + 1)

CollapseWhitespace(line) == CollapseFrom(Strip(line), 1)

\* ------------------------------------------------------------------------
\* ContentComparator._normalize_content
\* ------------------------------------------------------------------------

\* The three passes of _normalize_content over content.splitlines().
NormalizeLines(lines, ignWs, ignCase) ==
    LET cased  == IF ignCase THEN [k \in 1..Len(lines) |-> Lower(lines[k])] ELSE lines
        spaced == IF ignWs
                  THEN [k \in 1..Len(cased) |-> CollapseWhitespace(cased[k])]
                  ELSE cased
    IN  SelectSeq(spaced, LAMBDA line : Strip(line) # << >>)

NormalizeContent(content, ignWs, ignCase) ==
    NormalizeLines(SplitLines(content), ignWs, ignCase)

\* ------------------------------------------------------------------------
\* ContentComparator.DYNAMIC_PATTERNS and re.search(..., re.IGNORECASE)
\* ------------------------------------------------------------------------

\* A pattern is a sequence of elements; an element matches between lo and hi
\* characters of its class (hi = -1: no upper limit), greedily with
\* backtracking.  Classes hold lower-case characters: the search ignores case.
PChar(c) == [any |-> FALSE, cls |-> {LowerChar(c)}, lo |-> 1, hi |-> 1]

POpt(c) == [any |-> FALSE, cls |-> {LowerChar(c)}, lo |-> 0, hi |-> 1]

PDigits(lo, hi) == [any |-> FALSE, cls |-> Digits, lo |-> lo, hi |-> hi]

PAnyStar == [any |-> TRUE, cls |-> {}, lo |-> 0, hi |-> -1]

PLit(text) == [k \in 1..Len(text) |-> PChar(text[k])]

DYNAMIC_PATTERNS ==
    << \* \d{4}-\d{2}-\d{2}
       << PDigits(4, 4), PChar("-"), PDigits(2, 2), PChar("-"), PDigits(2, 2) >>,
       \* \d{2}/\d{2}/\d{4}
       << PDigits(2, 2), PChar("/"), PDigits(2, 2), PChar("/"), PDigits(4, 4) >>,
       \* \d{1,2}:\d{2}:\d{2}
       << PDigits(1, 2), PChar(":"), PDigits(2, 2), PChar(":"), PDigits(2, 2) >>,
       \* Updated:.*
       PLit(<<"U", "p", "d", "a", "t", "e", "d", ":">>) \o << PAnyStar >>,
       \* Last modified:.*
       PLit(<<"L", "a", "s", "t", " ", "m", "o", "d", "i", "f", "i", "e", "d", ":">>)
           \o << PAnyStar >>,
       \* Session ID:.*
       PLit(<<"S", "e", "s", "s", "i", "o", "n", " ", "I", "D", ":">>) \o << PAnyStar >>,
       \* Cookie:.*
       PLit(<<"C", "o", "o", "k", "i", "e", ":">>) \o << PAnyStar >>,
       \* \d+ visitors? online
       << PDigits(1, -1) >> \o PLit(<<" ", "v", "i", "s", "i", "t", "o", "r">>)
           \o << POpt("s") >> \o PLit(<<" ", "o", "n", "l", "i", "n", "e">>),
       \* Copyright © \d{4}
       PLit(<<"C", "o", "p", "y", "r", "i", "g", "h", "t", " ", "©", " ">>)
           \o << PDigits(4, 4) >>,
       \* Generated on.*
       PLit(<<"G", "e", "n", "e", "r", "a", "t", "e", "d", " ", "o", "n">>)
           \o << PAnyStar >> >>

ElemMatches(e, ch) == IF e.any THEN ch # NL ELSE LowerChar(ch) \in e.cls

\* How many characters from position i on the element can take (at most hi).
RECURSIVE RunLen(_, _, _, _)
RunLen(e, line, i, taken) ==
    IF i > Len(line) \/ taken = e.hi \/ ~ElemMatches(e, line[i])
    THEN taken
    ELSE RunLen(e, line, i + 1, taken + 1)

\* Do the elements k.. of the pattern match the line from position i on?
RECURSIVE MatchAt(_, _, _, _)
MatchAt(pat, k, line, i) ==
    IF k > Len(pat) THEN TRUE
    ELSE LET most == RunLen(pat[k], line, i, 0)
         IN  \E c \in pat[k].lo..most : MatchAt(pat, k + 1, line, i + c)

\* re.search(pattern, line, re.IGNORECASE) is not None
ReSearch(pat, line) == \E i \in 1..(Len(line) + 1) : MatchAt(pat, 1, line, i)

\* ------------------------------------------------------------------------
\* ContentComparator._filter_dynamic_content
\* ------------------------------------------------------------------------

\* is_dynamic of the loop body: some pattern is found in the line.
IsDynamic(line) ==
    \E p \in 1..Len(DYNAMIC_PATTERNS) : ReSearch(DYNAMIC_PATTERNS[p], line)

\* A filter that drops nothing.
FilterNothing(lines) == lines

\* The lines that match no pattern, in their order.
FilterDynamicContent(lines) == SelectSeq(lines, LAMBDA line : ~IsDynamic(line))

\* ------------------------------------------------------------------------
\* difflib.SequenceMatcher(None, a, b), as the comparator uses it: on two
\* lists of lines (unified_diff) and on two lines (ratio).  Indices are the
\* 0-based indices of the Python code; a[i] of the code is a[i + 1] here.
\* The "popular element" heuristic (autojunk) only acts when b has 200 or
\* more elements and is not reached by the documents of this model.
\* ------------------------------------------------------------------------

\* Length of the common run of a and b that starts at a[i], b[j] and stays
\* below ahi and bhi.
RECURSIVE CommonRun(_, _, _, _, _, _)
CommonRun(a, b, i, j, ahi, bhi) ==
    IF i < ahi /\ j < bhi /\ a[i + 1] = b[j + 1]
    THEN 1 + CommonRun(a, b, i + 1, j + 1, ahi, bhi)
    ELSE 0

\* find_longest_match(alo, ahi, blo, bhi): the longest block a[i:i+k] ==
\* b[j:j+k] inside the two windows; of the longest blocks the one that starts
\* earliest in a, and of those the one that starts earliest in b; (alo, blo, 0)
\* when nothing matches.
FindLongestMatch(a, b, alo, ahi, blo, bhi) ==
    LET cand == {p \in (alo..(ahi - 1)) \X (blo..(bhi - 1)) : a[p[1] + 1] = b[p[2] + 1]}
        size == [p \in cand |-> CommonRun(a, b, p[1], p[2], ahi, bhi)]
        Before(p, q) ==
            \/ size[p] > size[q]
            \/ size[p] = size[q] /\ p[1] < q[1]
            \/ size[p] = size[q] /\ p[1] = q[1] /\ p[2] <= q[2]
    IN  IF cand = {} THEN << alo, blo, 0 >>
        ELSE LET best == CHOOSE p \in cand : \A q \in cand : Before(p, q)
             IN  << best[1], best[2], size[best] >>

\* The recursion of get_matching_blocks: the longest match x of the window,
\* then the same to its left and to its right; the blocks come out in
\* increasing order.
RECURSIVE MatchingBlocksIn(_, _, _, _, _, _)
RECURSIVE BlocksAround(_, _, _, _, _, _, _)
BlocksAround(a, b, alo, ahi, blo, bhi, x) ==
    IF x[3] = 0 THEN << >>
    ELSE (IF alo < x[1] /\ blo < x[2]
          THEN MatchingBlocksIn(a, b, alo, x[1], blo, x[2]) ELSE << >>)
         \o << x >>
         \o (IF x[1] + x[3] < ahi /\ x[2] + x[3] < bhi
             THEN MatchingBlocksIn(a, b, x[1] + x[3], ahi, x[2] + x[3], bhi) ELSE << >>)

MatchingBlocksIn(a, b, alo, ahi, blo, bhi) ==
    BlocksAround(a, b, alo, ahi, blo, bhi, FindLongestMatch(a, b, alo, ahi, blo, bhi))

\* get_matching_blocks merges blocks that touch in both sequences.
RECURSIVE MergeAdjacent(_, _)
MergeAdjacent(blocks, cur) ==
    IF blocks = << >>
    THEN IF cur[3] > 0 THEN << cur >> ELSE << >>
    ELSE LET nxt == Head(blocks)
         IN  IF cur[1] + cur[3] = nxt[1] /\ cur[2] + cur[3] = nxt[2]
             THEN MergeAdjacent(Tail(blocks), << cur[1], cur[2], cur[3] + nxt[3] >>)
             ELSE (IF cur[3] > 0 THEN << cur >> ELSE << >>)
                  \o MergeAdjacent(Tail(blocks), nxt)

\* get_matching_blocks(): the merged blocks and the closing (len(a), len(b), 0).
GetMatchingBlocks(a, b) ==
    MergeAdjacent(MatchingBlocksIn(a, b, 0, Len(a), 0, Len(b)), << 0, 0, 0 >>)
        \o << << Len(a), Len(b), 0 >> >>

\* get_opcodes(): what lies between two consecutive blocks is a replace, a
\* delete or an insert; a block of positive size is an equal.
RECURSIVE OpcodesFrom(_, _, _)
OpcodesFrom(blocks, i, j) ==
    IF blocks = << >> THEN << >>
    ELSE LET ai   == Head(blocks)[1]
             bj   == Head(blocks)[2]
             size == Head(blocks)[3]
             tag  == IF i < ai /\ j < bj THEN "replace"
                     ELSE IF i < ai THEN "delete"
                     ELSE IF j < bj THEN "insert"
                     ELSE ""
         IN  (IF tag # ""
              THEN << [tag |-> tag, i1 |-> i, i2 |-> ai, j1 |-> j, j2 |-> bj] >>
              ELSE << >>)
             \o (IF size > 0
                 THEN << [tag |-> "equal", i1 |-> ai, i2 |-> ai + size,
                          j1 |-> bj, j2 |-> bj + size] >>
                 ELSE << >>)
             \o OpcodesFrom(Tail(blocks), ai + size, bj + size)

GetOpcodes(a, b) == OpcodesFrom(GetMatchingBlocks(a, b), 0, 0)

\* Sum of the sizes of the blocks: "matches" of ratio().
RECURSIVE SumSizes(_)
SumSizes(blocks) == IF blocks = << >> THEN 0 ELSE Head(blocks)[3] + SumSizes(Tail(blocks))

\* ratio(): 2.0 * matches / (len(a) + len(b)), and 1.0 for two empty
\* sequences; kept as the exact fraction num / den.
Ratio(a, b) ==
    IF Len(a) + Len(b) = 0
    THEN [num |-> 1, den |-> 1]
    ELSE [num |-> 2 * SumSizes(GetMatchingBlocks(a, b)), den |-> Len(a) + Len(b)]

\* An opcode (tag, i1, i2, j1, j2).
Opcode(tag, i1, i2, j1, j2) == [tag |-> tag, i1 |-> i1, i2 |-> i2, j1 |-> j1, j2 |-> j2]

\* get_grouped_opcodes: "if not codes: codes = [("equal", 0, 1, 0, 1)]".
CodesOrEqual(codes) == IF codes = << >> THEN << Opcode("equal", 0, 1, 0, 1) >> ELSE codes

\* get_grouped_opcodes: a leading equal keeps its last n lines only.
FixLeading(codes, n) ==
    IF codes[1].tag = "equal"
    THEN [codes EXCEPT ![1] =
             Opcode("equal", Max2(codes[1].i1, codes[1].i2 - n), codes[1].i2,
                    Max2(codes[1].j1, codes[1].j2 - n), codes[1].j2)]
    ELSE codes

\* get_grouped_opcodes: a trailing equal keeps its first n lines only.
FixTrailing(codes, n) ==
    IF codes[Len(codes)].tag = "equal"
    THEN [codes EXCEPT ![Len(codes)] =
             Opcode("equal", codes[Len(codes)].i1,
                    Min2(codes[Len(codes)].i2, codes[Len(codes)].i1 + n),
                    codes[Len(codes)].j1,
                    Min2(codes[Len(codes)].j2, codes[Len(codes)].j1 + n))]
    ELSE codes

\* get_grouped_opcodes: the loop over the opcodes from the k-th on; an equal
\* run longer than 2n closes the group and opens the next.
RECURSIVE GroupsFrom(_, _, _, _)
GroupsFrom(codes, n, k, group) ==
    IF k > Len(codes)
    THEN IF group # << >> /\ ~(Len(group) = 1 /\ group[1].tag = "equal")
         THEN << group >> ELSE << >>
    ELSE IF codes[k].tag = "equal" /\ codes[k].i2 - codes[k].i1 > n + n
         THEN << Append(group,
                    Opcode("equal", codes[k].i1, Min2(codes[k].i2, codes[k].i1 + n),
                           codes[k].j1, Min2(codes[k].j2, codes[k].j1 + n))) >>
              \o GroupsFrom(codes, n, k + 1,
                    << Opcode("equal", Max2(codes[k].i1, codes[k].i2 - n), codes[k].i2,
                              Max2(codes[k].j1, codes[k].j2 - n), codes[k].j2) >>)
         ELSE GroupsFrom(codes, n, k + 1, Append(group, codes[k]))

\* get_grouped_opcodes(n): the opcodes cut into groups with at most n lines
\* of context.
GroupedOpcodes(a, b, n) ==
    GroupsFrom(FixTrailing(FixLeading(CodesOrEqual(GetOpcodes(a, b)), n), n), n, 1, << >>)

\* '{}'.format(n) for a natural number.
DigitChar == << "0", "1", "2", "3", "4", "5", "6", "7", "8", "9" >>

RECURSIVE NumStr(_)
NumStr(n) ==
    IF n < 10 THEN << DigitChar[n + 1] >>
    ELSE NumStr(n \div 10) \o << DigitChar[(n % 10) + 1] >>

\* difflib._format_range_unified(start, stop)
FormatRangeUnified(start, stop) ==
    LET length == stop - start
    IN  IF length = 1 THEN NumStr(start + 1)
        ELSE NumStr(IF length = 0 THEN start ELSE start + 1) \o << "," >> \o NumStr(length)

\* One line of diff output per line of the slice, each behind the marker.
Marked(marker, lines) == [k \in 1..Len(lines) |-> << marker >> \o lines[k]]

\* The lines one opcode contributes to a hunk.
OpcodeLines(a, b, c) ==
    IF c.tag = "equal" THEN Marked(" ", Slice(a, c.i1, c.i2))
    ELSE (IF c.tag \in {"replace", "delete"}
          THEN Marked("-", Slice(a, c.i1, c.i2)) ELSE << >>)
         \o (IF c.tag \in {"replace", "insert"}
             THEN Marked("+", Slice(b, c.j1, c.j2)) ELSE << >>)

\* The lines of one group: the '@@' line, then the lines of its opcodes.
RECURSIVE GroupBody(_, _, _, _)
GroupBody(a, b, group, k) ==
    IF k > Len(group) THEN << >>
    ELSE OpcodeLines(a, b, group[k]) \o GroupBody(a, b, group, k + 1)

HunkLines(a, b, group) ==
    << << "@", "@", " ", "-" >>
         \o FormatRangeUnified(group[1].i1, group[Len(group)].i2)
         \o << " ", "+" >>
         \o FormatRangeUnified(group[1].j1, group[Len(group)].j2)
         \o << " ", "@", "@" >> >>
    \o GroupBody(a, b, group, 1)

RECURSIVE HunksFrom(_, _, _, _)
HunksFrom(a, b, groups, k) ==
    IF k > Len(groups) THEN << >>
    ELSE HunkLines(a, b, groups[k]) \o HunksFrom(a, b, groups, k + 1)

\* The output for the groups: the two file header lines ('--- ' and '+++ ',
\* the file names being empty) before the first hunk; no group, no output.
DiffOutput(a, b, groups) ==
    IF groups = << >> THEN << >>
    ELSE << << "-", "-", "-", " " >>, << "+", "+", "+", " " >> >> \o HunksFrom(a, b, groups, 1)

\* list(difflib.unified_diff(a, b, lineterm='', n=n))
UnifiedDiff(a, b, n) == DiffOutput(a, b, GroupedOpcodes(a, b, n))

\* ------------------------------------------------------------------------
\* ContentComparator._are_similar
\* ------------------------------------------------------------------------

\* The default of the parameter threshold, 0.7, as SIMILARITY_NUM / SIMILARITY_DEN.
SIMILARITY_NUM == 7

SIMILARITY_DEN == 10

\* ratio > threshold
RatioAbove(r) == r.num * SIMILARITY_DEN > SIMILARITY_NUM * r.den

\* ratio >= threshold
RatioAtLeast(r) == r.num * SIMILARITY_DEN >= SIMILARITY_NUM * r.den

AreSimilar(str1, str2) == RatioAtLeast(Ratio(str1, str2))

\* ------------------------------------------------------------------------
\* ContentComparator.compare: analysis of the diff and pairing
\* ------------------------------------------------------------------------

\* The while loop over the diff: lines that start with '---', '+++' or '@@'
\* are skipped, the others go by their first character to removed or added,
\* without that character and stripped.
RECURSIVE AnalyseDiff(_, _, _, _)
AnalyseDiff(diff, i, added, removed) ==
    IF i > Len(diff) THEN [added |-> added, removed |-> removed]
    ELSE LET line == diff[i]
         IN  IF \/ StartsWith(line, << "-", "-", "-" >>)
                \/ StartsWith(line, << "+", "+", "+" >>)
                \/ StartsWith(line, << "@", "@" >>)
             THEN AnalyseDiff(diff, i + 1, added, removed)
             ELSE IF StartsWith(line, << "-" >>)
                  THEN AnalyseDiff(diff, i + 1, added, Append(removed, Strip(Tail(line))))
                  ELSE IF StartsWith(line, << "+" >>)
                       THEN AnalyseDiff(diff, i + 1, Append(added, Strip(Tail(line))), removed)
                       ELSE AnalyseDiff(diff, i + 1, added, removed)

\* An inner loop that keeps the last similar line, not the first.
LastSimilar(rem, addedCopy) ==
    LET hit == {k \in 1..Len(addedCopy) : AreSimilar(rem, addedCopy[k])}
    IN  IF hit = {} THEN 0 ELSE CHOOSE k \in hit : \A m \in hit : k >= m

\* The inner loop "for add in added[:]": the first line of the copy that is
\* similar to rem, or 0.
\* A scan that stops at the first added line, similar or not.
HeadSimilar(rem, addedCopy) ==
    IF addedCopy # << >> /\ AreSimilar(rem, addedCopy[1]) THEN 1 ELSE 0

FirstSimilar(rem, addedCopy) ==
    LET hit == {k \in 1..Len(addedCopy) : AreSimilar(rem, addedCopy[k])}
    IN  IF hit = {} THEN 0 ELSE CHOOSE k \in hit : \A m \in hit : k <= m

RECURSIVE PairModified(_, _, _, _, _)
RECURSIVE PairStep(_, _, _, _, _, _)
\* A pairing that forgets "removed.remove(rem)".
PairStepKeeping(removedCopy, r, removed, added, modified, k) ==
    IF k = 0
    THEN PairModified(removedCopy, r + 1, removed, added, modified)
    ELSE PairModified(removedCopy, r + 1,
                      removed,
                      RemoveFirst(added, added[k]),
                      Append(modified, << removedCopy[r], added[k] >>))

\* The outer loop "for rem in removed[:]" from element r of the copy on; the
\* lists themselves shrink by list.remove, which deletes the first element
\* equal to its argument.  k is the place in added of the first line similar
\* to the r-th removed line, 0 if there is none.
PairStep(removedCopy, r, removed, added, modified, k) ==
    IF k = 0
    THEN PairModified(removedCopy, r + 1, removed, added, modified)
    ELSE PairModified(removedCopy, r + 1,
                      RemoveFirst(removed, removedCopy[r]),
                      RemoveFirst(added, added[k]),
                      Append(modified, << removedCopy[r], added[k] >>))

PairModified(removedCopy, r, removed, added, modified) ==
    IF r > Len(removedCopy)
    THEN [added |-> added, removed |-> removed, modified |-> modified]
    ELSE PairStep(removedCopy, r, removed, added, modified,
                  FirstSimilar(removedCopy[r], added))

\* ------------------------------------------------------------------------
\* ContentComparator._generate_summary
\* ------------------------------------------------------------------------

\* "for line in added[:5]", "for line in removed[:5]"
SUMMARY_MAX_LINES == 5

\* "for old, new in modified[:3]"
SUMMARY_MAX_PAIRS == 3

\* "line[:100]"
SUMMARY_LINE_WIDTH == 100

\* "old[:80]", "new[:80]"
SUMMARY_PAIR_WIDTH == 80

\* One entry of summary_parts.  kind names the f-string it comes from, n is
\* the number the f-string prints, old and new are the texts it prints.
SummaryPart(kind, n, old, new) == [kind |-> kind, n |-> n, old |-> old, new |-> new]

\* f"{score:.2f}": the score in hundredths of a percent, rounded.
FormatScore(score) == (2 * 100 * score.num + score.den) \div (2 * score.den)

\* A summary that lists every item, whatever their number.
GenerateSummaryUnbounded(added, removed, modified, score) ==
    << SummaryPart("score", FormatScore(score), << >>, << >>) >>
    \o (IF added # << >>
        THEN << SummaryPart("added", Len(added), << >>, << >>) >>
             \o [k \in 1..Len(added) |-> SummaryPart("added_line", 0, << >>, added[k])]
        ELSE << >>)
    \o (IF removed # << >>
        THEN << SummaryPart("removed", Len(removed), << >>, << >>) >>
             \o [k \in 1..Len(removed) |-> SummaryPart("removed_line", 0, removed[k], << >>)]
        ELSE << >>)
    \o (IF modified # << >>
        THEN << SummaryPart("modified", Len(modified), << >>, << >>) >>
             \o [k \in 1..Len(modified) |->
                    SummaryPart("modified_pair", 0, modified[k][1], modified[k][2])]
        ELSE << >>)

\* The summary as the list summary_parts (the code joins it with "\n").
GenerateSummary(added, removed, modified, score) ==
    LET addedShown    == Slice(added, 0, SUMMARY_MAX_LINES)
        removedShown  == Slice(removed, 0, SUMMARY_MAX_LINES)
        modifiedShown == Slice(modified, 0, SUMMARY_MAX_PAIRS)
    IN  << SummaryPart("score", FormatScore(score), << >>, << >>) >>
        \o (IF added # << >>
            THEN << SummaryPart("added", Len(added), << >>, << >>) >>
                 \o [k \in 1..Len(addedShown) |->
                        SummaryPart("added_line", 0, << >>,
                                    Slice(addedShown[k], 0, SUMMARY_LINE_WIDTH))]
                 \o (IF Len(added) > SUMMARY_MAX_LINES
                     THEN << SummaryPart("added_more", Len(added) - SUMMARY_MAX_LINES,
                                         << >>, << >>) >>
                     ELSE << >>)
            ELSE << >>)
        \o (IF removed # << >>
            THEN << SummaryPart("removed", Len(removed), << >>, << >>) >>
                 \o [k \in 1..Len(removedShown) |->
                        SummaryPart("removed_line", 0,
                                    Slice(removedShown[k], 0, SUMMARY_LINE_WIDTH), << >>)]
                 \o (IF Len(removed) > SUMMARY_MAX_LINES
                     THEN << SummaryPart("removed_more", Len(removed) - SUMMARY_MAX_LINES,
                                         << >>, << >>) >>
                     ELSE << >>)
            ELSE << >>)
        \o (IF modified # << >>
            THEN << SummaryPart("modified", Len(modified), << >>, << >>) >>
                 \o [k \in 1..Len(modifiedShown) |->
                        SummaryPart("modified_pair", 0,
                                    Slice(modifiedShown[k][1], 0, SUMMARY_PAIR_WIDTH),
                                    Slice(modifiedShown[k][2], 0, SUMMARY_PAIR_WIDTH))]
                 \o (IF Len(modified) > SUMMARY_MAX_PAIRS
                     THEN << SummaryPart("modified_more", Len(modified) - SUMMARY_MAX_PAIRS,
                                         << >>, << >>) >>
                     ELSE << >>)
            ELSE << >>)

\* diff_summary="Aucun changement"
NoChangeSummary == << SummaryPart("no_change", 0, << >>, << >>) >>

\* ------------------------------------------------------------------------
\* ContentComparator._hash
\* ------------------------------------------------------------------------

\* content.encode() raises UnicodeEncodeError on a lone surrogate.
Encodable(content) == \A k \in 1..Len(content) : content[k] # SURROGATE

\* hashlib.md5(content.encode()).hexdigest(): the program only ever compares
\* two digests, and two digests are equal exactly when the encoded texts are
\* (MD5 taken as collision free).
Hash(content) == [md5 |-> content]

\* ------------------------------------------------------------------------
\* ContentComparator.compare
\* ------------------------------------------------------------------------

\* A score is the exact fraction num / den of the float the code computes;
\* the threshold is a whole number of percent.
\* A wrong score: the quotient left a fraction, not made a percentage.
ScoreOfFraction(totalChanges, totalLines) == [num |-> totalChanges, den |-> totalLines]

ScoreOf(totalChanges, totalLines) == [num |-> totalChanges * 100, den |-> totalLines]

\* A wrong comparison: >= in place of >.
ScoreAtLeast(score, thr) == score.num >= thr * score.den

\* change_score > self.threshold
ScoreAbove(score, thr) == score.num > thr * score.den

ComparisonResult(has, score, added, removed, modified, summary, nOld, nNew, hOld, hNew) ==
    [has_changes |-> has, change_score |-> score, added_lines |-> added,
     removed_lines |-> removed, modified_lines |-> modified, diff_summary |-> summary,
     total_lines_old |-> nOld, total_lines_new |-> nNew,
     hash_old |-> hOld, hash_new |-> hNew]

\* A wrong short-circuit: the line totals counted after normalization, as
\* on the other branch.
IdenticalResultNormalized(old, new) ==
    ComparisonResult(FALSE, [num |-> 0, den |-> 1], << >>, << >>, << >>,
                     NoChangeSummary, Len(NormalizeContent(old, TRUE, FALSE)),
                     Len(NormalizeContent(new, TRUE, FALSE)), Hash(old), Hash(new))

\* The branch taken when the two digests are equal.
IdenticalResult(old, new) ==
    ComparisonResult(FALSE, [num |-> 0, den |-> 1], << >>, << >>, << >>,
                     NoChangeSummary, Len(SplitLines(old)), Len(SplitLines(new)),
                     Hash(old), Hash(new))

\* Lines 153-179: the score of the paired lists and the result.
ScoredResult(old, new, thr, nOld, nNew, paired, score) ==
    ComparisonResult(ScoreAbove(score, thr), score, paired.added, paired.removed,
                     paired.modified,
                     GenerateSummary(paired.added, paired.removed, paired.modified, score),
                     nOld, nNew, Hash(old), Hash(new))

\* A wrong denominator: the shorter of the two documents.
PairedResultOverShorter(old, new, thr, nOld, nNew, paired) ==
    ScoredResult(old, new, thr, nOld, nNew, paired,
                 ScoreOf(Len(paired.added) + Len(paired.removed) + Len(paired.modified),
                         Max2(Min2(nOld, nNew), 1)))

PairedResult(old, new, thr, nOld, nNew, paired) ==
    ScoredResult(old, new, thr, nOld, nNew, paired,
                 ScoreOf(Len(paired.added) + Len(paired.removed) + Len(paired.modified),
                         Max2(Max2(nOld, nNew), 1)))

\* Lines 124-151: the diff analysed into added and removed, then paired.
AnalysedResult(old, new, thr, nOld, nNew, parsed) ==
    PairedResult(old, new, thr, nOld, nNew,
                 PairModified(parsed.removed, 1, parsed.removed, parsed.added, << >>))

\* Lines 116-122: the diff of the two lists of lines, without context.
LinesResult(old, new, thr, linesOld, linesNew) ==
    AnalysedResult(old, new, thr, Len(linesOld), Len(linesNew),
                   AnalyseDiff(UnifiedDiff(linesOld, linesNew, 0), 1, << >>, << >>))

\* Lines 107-114 for one text: normalized, and filtered if asked.
PreparedLines(content, filterDynamic, ignWs, ignCase) ==
    IF filterDynamic
    THEN FilterDynamicContent(NormalizeContent(content, ignWs, ignCase))
    ELSE NormalizeContent(content, ignWs, ignCase)

\* A diff branch that never folds the case of the new text.
DiffedResultCaseOneSided(old, new, filterDynamic, thr, ignWs, ignCase) ==
    LinesResult(old, new, thr,
                PreparedLines(old, filterDynamic, ignWs, ignCase),
                PreparedLines(new, filterDynamic, ignWs, FALSE))

\* A diff branch that filters the old text only.
DiffedResultOneSided(old, new, filterDynamic, thr, ignWs, ignCase) ==
    LinesResult(old, new, thr,
                PreparedLines(old, filterDynamic, ignWs, ignCase),
                PreparedLines(new, FALSE, ignWs, ignCase))

\* The branch taken when the digests differ: normalize, filter, diff, pair,
\* score.
DiffedResult(old, new, filterDynamic, thr, ignWs, ignCase) ==
    LinesResult(old, new, thr,
                PreparedLines(old, filterDynamic, ignWs, ignCase),
                PreparedLines(new, filterDynamic, ignWs, ignCase))

\* ------------------------------------------------------------------------
\* State: one comparator and one call of compare on it
\* ------------------------------------------------------------------------

VARIABLES
    threshold,          \* self.threshold, percent
    ignore_whitespace,  \* self.ignore_whitespace
    ignore_case,        \* self.ignore_case
    content_old,        \* argument content_old of the call
    content_new,        \* argument content_new of the call
    filter_dynamic,     \* argument filter_dynamic of the call
    pc,                 \* "Unevaluated", then "Identical", "Diffed" or "Raised"
    result,             \* the ComparisonResult returned, NoResult before and on a raise
    calls,              \* number of calls of compare that have ended
    earlier,            \* the calls that have ended: arguments and outcome
    steps,              \* the steps of compare the call has run, in order
    threads,            \* concurrent calls on the comparator: arguments, place, result
    locals,             \* the local variables of compare, one frame per call
    sites,              \* the 'sites' list of config/sites.yaml
    log_tab,            \* the rows of the Log tab of the sheet, oldest first
    comparison_tab,     \* the rows of the Comparison tab of the sheet, oldest first
    outbox,             \* the notifications the notifier has sent
    clock,              \* datetime.now(), counted in writes to the sheet
    monitors,           \* the runs of monitor_site: site, place, local variables
    main_pc,            \* "idle", then the end of run() or of setup_scheduler()
    exit_code,          \* the value run() returns
    monitored,          \* the sites run() has called monitor_site for, in order
    jobs,               \* the jobs added to the scheduler, in order
    job_count           \* job_count of setup_scheduler

\* The state of the comparator and of the calls of compare.
comparatorVars ==
    << threshold, ignore_whitespace, ignore_case, content_old, content_new,
       filter_dynamic, pc, result, calls, earlier, steps, threads, locals >>

\* The sheet, the mailbox and the runs of monitor_site.
monitorVars == << log_tab, comparison_tab, outbox, clock, monitors >>

\* The configuration and what run() and setup_scheduler() produce.
mainVars == << sites, main_pc, exit_code, monitored, jobs, job_count >>

vars == << comparatorVars, monitorVars, mainVars >>

\* No orchestrator: an empty configuration and an empty sheet.
NoAgent ==
    /\ sites = << >>
    /\ log_tab = << >>
    /\ comparison_tab = << >>
    /\ outbox = << >>
    /\ clock = 0
    /\ monitors = << >>
    /\ main_pc = "idle"
    /\ exit_code = -1
    /\ monitored = << >>
    /\ jobs = << >>
    /\ job_count = 0

NoResult == [exception |-> "none"]

Raise(name) == [exception |-> name]

\* ------------------------------------------------------------------------
\* Inputs
\* ------------------------------------------------------------------------

\* Most lines of a document.
MaxLines == 2

\* "\n".join(lines)
RECURSIVE Join(_)
Join(lines) ==
    IF lines = << >> THEN << >>
    ELSE IF Len(lines) = 1 THEN lines[1]
    ELSE lines[1] \o << NL >> \o Join(Tail(lines))

\* The texts of at most MaxLines lines taken from a pool of lines.
Contents(pool) == {Join(d) : d \in UNION {[1..k -> pool] : k \in 0..MaxLines}}

\* A comparator built with the given settings, and a call about to run.
InitWith(contents, thresholds) ==
    /\ threshold \in thresholds
    /\ ignore_whitespace \in BOOLEAN
    /\ ignore_case \in BOOLEAN
    /\ content_old \in contents
    /\ content_new \in contents
    /\ filter_dynamic \in BOOLEAN
    /\ pc = "Unevaluated"
    /\ result = NoResult
    /\ calls = 0
    /\ earlier = {}
    /\ steps = << >>
    /\ threads = << >>
    /\ locals = << >>
    /\ NoAgent

\* ------------------------------------------------------------------------
\* ContentComparator.compare as one step
\* ------------------------------------------------------------------------

\* The steps of the branch taken when the digests differ (lines 107-166);
\* the filter runs only if asked (line 112).
DiffSteps(filterDynamic) ==
    << "hash", "normalize" >>
    \o (IF filterDynamic THEN << "filter" >> ELSE << >>)
    \o << "diff", "pair", "score", "summary" >>

\* What compare returns or raises for the given arguments on this comparator.
OutcomeOf(old, new, filterDynamic) ==
    IF ~Encodable(old) \/ ~Encodable(new)
    THEN [pc |-> "Raised", result |-> Raise("UnicodeEncodeError"),
          steps |-> << "hash" >>]
    ELSE IF Hash(old) = Hash(new)
         THEN [pc |-> "Identical", result |-> IdenticalResult(old, new),
               steps |-> << "hash" >>]
         ELSE [pc |-> "Diffed",
               result |-> DiffedResult(old, new, filterDynamic,
                                       threshold, ignore_whitespace, ignore_case),
               steps |-> DiffSteps(filterDynamic)]

\* The outcome of the call in the variables.
CompareOutcome == OutcomeOf(content_old, content_new, filter_dynamic)

\* What is kept of a call that has ended.
EndedCall(outcome) ==
    [content_old |-> content_old, content_new |-> content_new,
     filter_dynamic |-> filter_dynamic, pc |-> outcome.pc, result |-> outcome.result]

\* A compare that writes to its comparator: the threshold moves at each call.
ReturnsAdapting(outcome) ==
    /\ pc' = outcome.pc
    /\ result' = outcome.result
    /\ calls' = calls + 1
    /\ earlier' = earlier \cup {EndedCall(outcome)}
    /\ steps' = outcome.steps
    /\ UNCHANGED << threads, locals >>
    /\ UNCHANGED << monitorVars, mainVars >>
    /\ threshold' = 100 - threshold
    /\ UNCHANGED << ignore_whitespace, ignore_case, content_old,
                    content_new, filter_dynamic >>

\* The step: the call ends in the given outcome; compare assigns no field of
\* the comparator and no argument.
Returns(outcome) ==
    /\ pc' = outcome.pc
    /\ result' = outcome.result
    /\ calls' = calls + 1
    /\ earlier' = earlier \cup {EndedCall(outcome)}
    /\ steps' = outcome.steps
    /\ UNCHANGED << threads, locals >>
    /\ UNCHANGED << monitorVars, mainVars >>
    /\ UNCHANGED << threshold, ignore_whitespace, ignore_case, content_old,
                    content_new, filter_dynamic >>

Compare ==
    /\ pc = "Unevaluated"
    /\ Returns(CompareOutcome)

Next == Compare

\* Most calls made on one comparator.
MaxCalls == 3

\* The caller calls compare again on the same comparator, about the same two
\* texts or about the two exchanged.
CallAgain ==
    /\ pc # "Unevaluated"
    /\ calls < MaxCalls
    /\ \E exchange \in BOOLEAN :
          /\ content_old' = (IF exchange THEN content_new ELSE content_old)
          /\ content_new' = (IF exchange THEN content_old ELSE content_new)
    /\ pc' = "Unevaluated"
    /\ result' = NoResult
    /\ steps' = << >>
    /\ UNCHANGED << threshold, ignore_whitespace, ignore_case, filter_dynamic,
                    calls, earlier, threads, locals >>
    /\ UNCHANGED << monitorVars, mainVars >>

NextRepeat == Compare \/ CallAgain

\* ------------------------------------------------------------------------
\* Concurrent calls of compare on one comparator, statement by statement
\* ------------------------------------------------------------------------

\* Most calls in flight at once.
MaxThreads == 2

\* A call about to run.
StartedCall(old, new, filterDynamic) ==
    [pc |-> "Unevaluated", content_old |-> old, content_new |-> new,
     filter_dynamic |-> filterDynamic, result |-> NoResult]

\* The frame of a call before its first assignment.
NoLocals ==
    [lines_old |-> << >>, lines_new |-> << >>, added |-> << >>, removed |-> << >>,
     modified |-> << >>]

\* A comparator that keeps its working lists in attributes of the object:
\* every call uses the same frame.
FrameShared(t) == 1

\* The frame call t works in: its own, the variables of compare being local.
Frame(t) == t

\* Lines 88-105 for a call: the two digests, and the result at once if they
\* are equal.
Hashed(call) ==
    IF ~Encodable(call.content_old) \/ ~Encodable(call.content_new)
    THEN [call EXCEPT !.pc = "Raised", !.result = Raise("UnicodeEncodeError")]
    ELSE IF Hash(call.content_old) = Hash(call.content_new)
         THEN [call EXCEPT !.pc = "Identical",
                           !.result = IdenticalResult(call.content_old, call.content_new)]
         ELSE [call EXCEPT !.pc = "Normalizing"]

HashStep(t) ==
    /\ threads[t].pc = "Unevaluated"
    /\ threads' = [threads EXCEPT ![t] = Hashed(@)]
    /\ UNCHANGED locals

\* Lines 108-109: reads self.ignore_whitespace and self.ignore_case.
NormalizeStep(t) ==
    /\ threads[t].pc = "Normalizing"
    /\ locals' = [locals EXCEPT
                    ![Frame(t)].lines_old =
                        NormalizeContent(threads[t].content_old, ignore_whitespace, ignore_case),
                    ![Frame(t)].lines_new =
                        NormalizeContent(threads[t].content_new, ignore_whitespace, ignore_case)]
    /\ threads' = [threads EXCEPT ![t].pc = "Filtering"]

\* Lines 112-114.
FilterStep(t) ==
    /\ threads[t].pc = "Filtering"
    /\ locals' = IF threads[t].filter_dynamic
                 THEN [locals EXCEPT
                         ![Frame(t)].lines_old = FilterDynamicContent(@),
                         ![Frame(t)].lines_new = FilterDynamicContent(@)]
                 ELSE locals
    /\ threads' = [threads EXCEPT ![t].pc = "Diffing"]

\* The frame with the two lists of the analysis.
WithParsed(frame, parsed) ==
    [frame EXCEPT !.added = parsed.added, !.removed = parsed.removed]

\* Lines 117-142.
DiffStep(t) ==
    /\ threads[t].pc = "Diffing"
    /\ locals' = [locals EXCEPT ![Frame(t)] =
                    WithParsed(@, AnalyseDiff(UnifiedDiff(@.lines_old, @.lines_new, 0),
                                              1, << >>, << >>))]
    /\ threads' = [threads EXCEPT ![t].pc = "Pairing"]

\* The frame with the three lists of the pairing.
WithPaired(frame, paired) ==
    [frame EXCEPT !.added = paired.added, !.removed = paired.removed,
                  !.modified = paired.modified]

\* Lines 144-151.
PairingStep(t) ==
    /\ threads[t].pc = "Pairing"
    /\ locals' = [locals EXCEPT ![Frame(t)] =
                    WithPaired(@, PairModified(@.removed, 1, @.removed, @.added, << >>))]
    /\ threads' = [threads EXCEPT ![t].pc = "Scoring"]

\* Lines 153-179 for a call and its frame: reads self.threshold.
Scored(call, frame) ==
    [call EXCEPT !.pc = "Diffed",
                 !.result = PairedResult(call.content_old, call.content_new, threshold,
                                         Len(frame.lines_old), Len(frame.lines_new), frame)]

ScoreStep(t) ==
    /\ threads[t].pc = "Scoring"
    /\ threads' = [threads EXCEPT ![t] = Scored(@, locals[Frame(t)])]
    /\ UNCHANGED locals

\* One statement of one call; no statement assigns an attribute of the
\* comparator.
ThreadStep(t) ==
    /\ \/ HashStep(t)
       \/ NormalizeStep(t)
       \/ FilterStep(t)
       \/ DiffStep(t)
       \/ PairingStep(t)
       \/ ScoreStep(t)
    /\ UNCHANGED << threshold, ignore_whitespace, ignore_case, content_old,
                    content_new, filter_dynamic, pc, result, calls, earlier, steps >>
    /\ UNCHANGED << monitorVars, mainVars >>

NextConcurrent == \E t \in 1..MaxThreads : ThreadStep(t)

\* ------------------------------------------------------------------------
\* Specifications: the same comparator over different pools of lines
\* ------------------------------------------------------------------------

\* Whole-percent thresholds a site can be configured with.
Thresholds == {0, 50, 100}

\* Two lines that are an edit of one another (ratio 0.75) and an unrelated
\* line that white space and case normalization change.
EditPool ==
    { << "a", "b", "c", "d" >>, << "a", "b", "c", "e" >>, << " ", "X", "y" >> }

Init == InitWith(Contents(EditPool), Thresholds)

Spec == Init /\ [][Next]_vars

\* A blank line, a line with a time of day, and a line with white space and
\* capitals.
RawPool ==
    { << >>, << "1", ":", "0", "0", ":", "0", "0" >>, << " ", "A", "b" >> }

InitRaw == InitWith(Contents(RawPool), Thresholds)

SpecRaw == InitRaw /\ [][Next]_vars

\* Two different noise lines (a time of day, a cookie) and a content line.
NoisePool ==
    { << "1", ":", "0", "0", ":", "0", "0" >>,
      << "c", "o", "o", "k", "i", "e", ":", "z" >>,
      << "a", "b" >> }

InitNoise == InitWith(Contents(NoisePool), Thresholds)

SpecNoise == InitNoise /\ [][Next]_vars

\* Lines that begin like the markers of the diff output, and a plain line.
MarkerPool ==
    { << "a" >>, << "+", "+", "b" >>, << "-", "-", "a", "b" >>,
      << "-", "-", "a", "c" >> }

InitMarker == InitWith(Contents(MarkerPool), Thresholds)

SpecMarker == InitMarker /\ [][Next]_vars

\* Repeated calls about two lines that are an edit of one another.
RepeatPool == { << "a", "b", "c", "d" >>, << "a", "b", "c", "e" >> }

InitRepeat == InitWith(Contents(RepeatPool), Thresholds)

SpecRepeat == InitRepeat /\ [][NextRepeat]_vars

\* A text str.encode() cannot encode, next to two it can.
MalformedPool == { << "a" >>, << "b" >>, << SURROGATE >> }

InitMalformed == InitWith(Contents(MalformedPool), Thresholds)

SpecMalformed == InitMalformed /\ [][Next]_vars

\* The same line written twice, with and without a capital and a doubled
\* blank, and an empty line.
NormPool == { << "A", " ", " ", "b" >>, << "a", " ", "b" >>, << >> }

InitNorm == InitWith(Contents(NormPool), Thresholds)

SpecNorm == InitNorm /\ [][Next]_vars

\* How far past the limits of the summary the documents go.
MaxOver == 1

\* Numbers of lines around a limit of the summary: none, one, the limit, more.
CountsAround(limit) == {0, 1} \cup (limit..(limit + MaxOver))

\* The k-th of a family of lines; two lines of the families "c" and "d" with
\* the same k are an edit of one another (ratio 0.75), no other two are.
EditLine(family, k) == << "a", "b", family, DigitChar[k + 1] >>

\* Lines that are similar to no other line.
OldSingles ==
    << << "p" >>, << "q" >>, << "r" >>, << "s" >>, << "t" >>, << "u" >>, << "v" >>, << "w" >> >>

NewSingles ==
    << << "g" >>, << "h" >>, << "i" >>, << "j" >>, << "k" >>, << "l" >>, << "m" >>, << "n" >> >>

\* A text of e lines of a family followed by the first n of the singles.
SummaryDocument(family, e, singles, n) ==
    Join([k \in 1..e |-> EditLine(family, k)] \o SubSeq(singles, 1, n))

\* Old texts with lines to pair and lines to remove, new texts with lines to
\* pair and lines to add, in numbers around the limits of the summary.
InitSummary ==
    /\ threshold \in Thresholds
    /\ ignore_whitespace \in BOOLEAN
    /\ ignore_case \in BOOLEAN
    /\ filter_dynamic \in BOOLEAN
    /\ content_old \in {SummaryDocument("c", e, OldSingles, n) :
                           e \in CountsAround(SUMMARY_MAX_PAIRS), n \in CountsAround(SUMMARY_MAX_LINES)}
    /\ content_new \in {SummaryDocument("d", e, NewSingles, n) :
                           e \in CountsAround(SUMMARY_MAX_PAIRS), n \in CountsAround(SUMMARY_MAX_LINES)}
    /\ pc = "Unevaluated"
    /\ result = NoResult
    /\ calls = 0
    /\ earlier = {}
    /\ steps = << >>
    /\ threads = << >>
    /\ locals = << >>
    /\ NoAgent

SpecSummary == InitSummary /\ [][Next]_vars

\* The calls made concurrently: an edit, a noise line with an added line, a
\* difference normalization removes, and twice the same text.
ConcurrentCalls ==
    { StartedCall(<< "a", "b", "c", "d" >>, << "a", "b", "c", "e" >>, TRUE),
      StartedCall(<< "1", ":", "0", "0", ":", "0", "0", NL, "a", "b", "c", "d" >>,
                  << "a", "b", "c", "d", NL, "x", "y" >>, TRUE),
      StartedCall(<< "A", " ", " ", "b" >>, << "a", " ", "b" >>, FALSE),
      StartedCall(<< "x", "y" >>, << "x", "y" >>, TRUE) }

\* Thresholds on either side of the score of the edit (100) and of the added
\* line (50).
ConcurrentThresholds == {0, 50}

\* A comparator and MaxThreads calls about to run on it.
InitConcurrent ==
    /\ threshold \in ConcurrentThresholds
    /\ ignore_whitespace \in BOOLEAN
    /\ ignore_case \in BOOLEAN
    /\ threads \in [1..MaxThreads -> ConcurrentCalls]
    /\ locals = [t \in 1..MaxThreads |-> NoLocals]
    /\ NoAgent
    /\ content_old = << >>
    /\ content_new = << >>
    /\ filter_dynamic = TRUE
    /\ pc = "Unevaluated"
    /\ result = NoResult
    /\ calls = 0
    /\ earlier = {}
    /\ steps = << >>

SpecConcurrent == InitConcurrent /\ [][NextConcurrent]_vars

\* Three lines of ten characters: the first and the second have ratio 0.7,
\* the second and the third 0.9, the first and the third 0.6.
PairPool ==
    { << "a", "b", "c", "d", "e", "f", "g", "h", "i", "j" >>,
      << "a", "b", "c", "d", "e", "f", "g", "x", "y", "z" >>,
      << "a", "b", "c", "d", "e", "f", "w", "x", "y", "z" >> }

\* compare(old, new) with the default filter_dynamic; the flags do not bear on
\* these lines.
InitPair ==
    /\ threshold \in ConcurrentThresholds
    /\ ignore_whitespace \in BOOLEAN
    /\ ignore_case = FALSE
    /\ filter_dynamic = TRUE
    /\ content_old \in Contents(PairPool)
    /\ content_new \in Contents(PairPool)
    /\ pc = "Unevaluated"
    /\ result = NoResult
    /\ calls = 0
    /\ earlier = {}
    /\ steps = << >>
    /\ threads = << >>
    /\ locals = << >>
    /\ NoAgent

SpecPair == InitPair /\ [][Next]_vars

\* The eight lines of the document of test 5, each cut after its second word.
MinorLines ==
    << << "L", "o", "r", "e", "m", " ", "i", "p", "s", "u", "m" >>,
       << "S", "e", "d", " ", "d", "o" >>,
       << "U", "t", " ", "e", "n", "i", "m" >>,
       << "N", "i", "s", "i", " ", "u", "t" >>,
       << "D", "u", "i", "s", " ", "a", "u", "t", "e" >>,
       << "C", "i", "l", "l", "u", "m", " ", "d", "o", "l", "o", "r", "e" >>,
       << "E", "x", "c", "e", "p", "t", "e", "u", "r", " ", "s", "i", "n", "t" >>,
       << "S", "u", "n", "t", " ", "i", "n" >> >>

\* The capital of a small letter.
UpperChar(c) ==
    IF \E u \in DOMAIN LowerMap : LowerMap[u] = c
    THEN CHOOSE u \in DOMAIN LowerMap : LowerMap[u] = c
    ELSE c

\* str.replace("Lorem ipsum", "Lorem Ipsum") for any line: the second word
\* gets a capital.
SecondWordCapital(line) ==
    [k \in 1..Len(line) |-> IF k > 1 /\ line[k - 1] = " " THEN UpperChar(line[k]) ELSE line[k]]

\* The text of test 5 (a line break first and last) with the second word of
\* line c written with a capital; c = 0 is content_v1 itself.
MinorDocument(c) ==
    << NL >>
    \o Join([k \in 1..Len(MinorLines) |->
                IF k = c THEN SecondWordCapital(MinorLines[k]) ELSE MinorLines[k]])
    \o << NL >>

MinorContents == {MinorDocument(c) : c \in 0..Len(MinorLines)}

\* compare_content(content_v1, content_v2, threshold=1.0) and other thresholds.
MinorThresholds == {1, 50}

InitMinor == InitWith(MinorContents, MinorThresholds)

SpecMinor == InitMinor /\ [][Next]_vars

\* ------------------------------------------------------------------------
\* Properties
\* ------------------------------------------------------------------------

\* compare has returned a ComparisonResult.
Returned == pc \in {"Identical", "Diffed"}

Range(s) == {s[k] : k \in 1..Len(s)}

\* Number of lines of a raw text, counted on its line breaks.
RawLineCount(content) ==
    Cardinality({k \in 1..Len(content) : content[k] = NL})
        + (IF content # << >> /\ content[Len(content)] # NL THEN 1 ELSE 0)

\* C1 -- Identity: compare(x, x) returns has_changes = False, score 0, three
\* empty lists, equal hashes, the fixed "no change" summary, and both line
\* totals equal to the number of lines of the raw text x, whatever the
\* threshold and the three flags.
C1_Identity ==
    (pc # "Unevaluated" /\ content_old = content_new) =>
        /\ pc = "Identical"
        /\ result.has_changes = FALSE
        /\ result.change_score.num = 0
        /\ result.change_score.den # 0
        /\ result.added_lines = << >>
        /\ result.removed_lines = << >>
        /\ result.modified_lines = << >>
        /\ result.hash_old = result.hash_new
        /\ result.diff_summary = NoChangeSummary
        /\ result.total_lines_old = RawLineCount(content_old)
        /\ result.total_lines_new = RawLineCount(content_old)

\* x holds a blank line and a noise line, the filter is on: both are counted.
C1_Witness ==
    /\ pc = "Identical"
    /\ filter_dynamic
    /\ ignore_whitespace
    /\ content_old = content_new
    /\ \E k \in 1..Len(SplitLines(content_old)) : SplitLines(content_old)[k] = << >>
    /\ \E k \in 1..Len(SplitLines(content_old)) : IsDynamic(SplitLines(content_old)[k])
    /\ result.total_lines_old = 2

\* C2 -- Threshold boundary: for a threshold t >= 0, has_changes is true
\* exactly when change_score > t; a score equal to t gives has_changes = False.
C2_ThresholdBoundary ==
    (Returned /\ threshold >= 0) =>
        (result.has_changes <=>
            result.change_score.num > threshold * result.change_score.den)

\* A diff whose score is exactly the (positive) threshold: no change reported.
C2_Witness ==
    /\ pc = "Diffed"
    /\ threshold > 0
    /\ result.change_score.num = threshold * result.change_score.den
    /\ result.has_changes = FALSE

\* One more differing line than in C2_Witness: the score passes the threshold.
C2_WitnessAbove ==
    /\ pc = "Diffed"
    /\ threshold = 50
    /\ result.total_lines_old = 2
    /\ result.total_lines_new = 2
    /\ Len(result.added_lines) + Len(result.removed_lines) + Len(result.modified_lines) = 2
    /\ result.has_changes = TRUE

\* C3 -- Score formula: on both branches change_score =
\* (len(added) + len(removed) + len(modified)) / max(total_lines_old,
\* total_lines_new, 1) * 100, a modified pair counting once, and the
\* denominator is never 0.
C3_ScoreFormula ==
    Returned =>
        LET changes == Len(result.added_lines) + Len(result.removed_lines)
                           + Len(result.modified_lines)
            lines   == Max2(Max2(result.total_lines_old, result.total_lines_new), 1)
        IN  /\ result.change_score.den # 0
            /\ lines # 0
            /\ result.change_score.num * lines = 100 * changes * result.change_score.den

\* A diff with one modified pair and one removed line against an empty-ish
\* other side: old has two lines, new one; the pair counts once, score 100.
C3_Witness ==
    /\ pc = "Diffed"
    /\ Len(result.modified_lines) = 1
    /\ Len(result.removed_lines) = 1
    /\ result.added_lines = << >>
    /\ result.total_lines_old = 2
    /\ result.total_lines_new = 1
    /\ result.change_score.num = 100 * result.change_score.den

\* The empty document against a non-empty one: a line total of 0.
C3_WitnessEmpty ==
    /\ pc = "Diffed"
    /\ content_old = << >>
    /\ result.total_lines_old = 0
    /\ result.change_score.num = 100 * result.change_score.den

\* The ten fields of a ComparisonResult.
ResultFields ==
    { "has_changes", "change_score", "added_lines", "removed_lines",
      "modified_lines", "diff_summary", "total_lines_old", "total_lines_new",
      "hash_old", "hash_new" }

\* C4 -- Totality: for every pair of inputs, however degenerate, compare
\* returns a ComparisonResult with its ten fields; no exception leaves compare.
C4_Totality ==
    pc # "Unevaluated" => (Returned /\ DOMAIN result = ResultFields)

NotDynamic(line) == ~IsDynamic(line)

ContentLines(content) == SelectSeq(SplitLines(content), NotDynamic)

\* Some line of the raw text matches a noise pattern.
HasNoise(content) ==
    \E k \in 1..Len(SplitLines(content)) : IsDynamic(SplitLines(content)[k])

\* C6 -- Noise-only differences are hidden: with filter_dynamic = True, when
\* old and new differ only in lines matching a noise pattern (their other
\* lines are the same sequence), compare returns score 0, three empty lists
\* and has_changes = False for every threshold >= 0.
C6_NoiseOnlyHidden ==
    (/\ Returned
     /\ filter_dynamic
     /\ threshold >= 0
     /\ ContentLines(content_old) = ContentLines(content_new))
    => /\ result.change_score.num = 0
       /\ result.added_lines = << >>
       /\ result.removed_lines = << >>
       /\ result.modified_lines = << >>
       /\ result.has_changes = FALSE

\* Old and new hold the same content line and two different noise lines; the
\* diff runs and reports nothing at threshold 0.
C6_Witness ==
    /\ pc = "Diffed"
    /\ filter_dynamic
    /\ threshold = 0
    /\ HasNoise(content_old)
    /\ HasNoise(content_new)
    /\ ContentLines(content_old) = ContentLines(content_new)
    /\ ContentLines(content_old) # << >>
    /\ result.has_changes = FALSE
    /\ result.total_lines_old = 1

\* The lines the three lists report, old and new sides of the pairs included.
ReportedLines ==
    Range(result.added_lines) \cup Range(result.removed_lines)
        \cup {result.modified_lines[k][1] : k \in 1..Len(result.modified_lines)}
        \cup {result.modified_lines[k][2] : k \in 1..Len(result.modified_lines)}

\* Number of normalized lines of a text that match no noise pattern.
QuietLineCount(content) ==
    Len(SelectSeq(NormalizeContent(content, ignore_whitespace, ignore_case), NotDynamic))

\* C7 as stated -- with filter_dynamic = True no line matching a noise
\* pattern appears in added_lines, removed_lines or a modified_lines pair, and
\* such lines are not counted in total_lines_old / total_lines_new.
C7_NoiseNeverCounted ==
    (Returned /\ filter_dynamic) =>
        /\ \A line \in ReportedLines : ~IsDynamic(line)
        /\ result.total_lines_old = QuietLineCount(content_old)
        /\ result.total_lines_new = QuietLineCount(content_new)

\* C7 amended -- with filter_dynamic = True no line matching a noise pattern
\* appears in the three lists; when the raw texts differ (the diff runs) the
\* two totals count the normalized lines that match no pattern, and when they
\* are identical the totals count every line of the raw text, noise included.
C7_NoiseFiltered ==
    (Returned /\ filter_dynamic) =>
        /\ \A line \in ReportedLines : ~IsDynamic(line)
        /\ pc = "Diffed" =>
              /\ result.total_lines_old = QuietLineCount(content_old)
              /\ result.total_lines_new = QuietLineCount(content_new)
        /\ pc = "Identical" =>
              /\ result.total_lines_old = RawLineCount(content_old)
              /\ result.total_lines_new = RawLineCount(content_new)

\* Old holds a noise line and a content line, new only another noise line:
\* the content line is reported removed, the noise lines are not counted.
C7_Witness ==
    /\ pc = "Diffed"
    /\ filter_dynamic
    /\ HasNoise(content_old)
    /\ HasNoise(content_new)
    /\ Len(SplitLines(content_old)) = 2
    /\ result.total_lines_old = 1
    /\ result.total_lines_new = 0
    /\ Len(result.removed_lines) = 1

\* Number of places of s that hold x.
Occurrences(s, x) == Cardinality({k \in 1..Len(s) : s[k] = x})

OldSides(pairs) == [k \in 1..Len(pairs) |-> pairs[k][1]]

NewSides(pairs) == [k \in 1..Len(pairs) |-> pairs[k][2]]

\* The lines the diff of the two prepared documents marks removed and added.
DiffOfCall ==
    AnalyseDiff(
        UnifiedDiff(PreparedLines(content_old, filter_dynamic, ignore_whitespace, ignore_case),
                    PreparedLines(content_new, filter_dynamic, ignore_whitespace, ignore_case),
                    0),
        1, << >>, << >>)

EachReportedOnce(marked, kept, paired) ==
    \A x \in Range(marked) \cup Range(kept) \cup Range(paired) :
        Occurrences(kept, x) + Occurrences(paired, x) = Occurrences(marked, x)

NormOld == NormalizeContent(content_old, ignore_whitespace, ignore_case)

NormNew == NormalizeContent(content_new, ignore_whitespace, ignore_case)

\* The lines as the lists report them: without surrounding white space.
Trimmed(lines) == [k \in 1..Len(lines) |-> Strip(lines[k])]

\* C9 -- Pure addition: when the normalized new document is the normalized
\* old document followed by k >= 1 appended lines that match no noise
\* pattern, compare returns removed_lines = [], modified_lines = [],
\* added_lines = the k appended lines in order, change_score = k / len(new
\* lines) * 100, and has_changes = True when that score exceeds the threshold.
\* (Lines are compared as reported, without surrounding white space.)
C9_PureAddition ==
    (/\ Returned
     /\ Len(NormNew) > Len(NormOld)
     /\ SubSeq(NormNew, 1, Len(NormOld)) = NormOld
     /\ \A k \in 1..Len(NormNew) : ~IsDynamic(NormNew[k]))
    => /\ result.removed_lines = << >>
       /\ result.modified_lines = << >>
       /\ result.added_lines = Trimmed(SubSeq(NormNew, Len(NormOld) + 1, Len(NormNew)))
       /\ result.change_score.num * Len(NormNew)
              = 100 * (Len(NormNew) - Len(NormOld)) * result.change_score.den
       /\ (100 * (Len(NormNew) - Len(NormOld)) > threshold * Len(NormNew))
              => result.has_changes

\* The places where two documents of the same length differ.
DifferingPlaces(a, b) == {k \in 1..Len(a) : a[k] # b[k]}

\* C10 -- Near-duplicate edit: when old and new differ in exactly one line
\* position and the two lines there have similarity ratio >= 0.7, compare
\* returns exactly one modified_lines pair (old_line, new_line), empty
\* added_lines and removed_lines, and change_score = 1 / max(line counts) * 100.
\* (Lines are compared as reported, without surrounding white space.)
C10_NearDuplicateEdit ==
    (/\ Returned
     /\ Len(NormOld) = Len(NormNew)
     /\ Cardinality(DifferingPlaces(NormOld, NormNew)) = 1
     /\ \A k \in 1..Len(NormNew) : ~IsDynamic(NormNew[k]) /\ ~IsDynamic(NormOld[k])
     /\ \A k \in DifferingPlaces(NormOld, NormNew) : AreSimilar(Strip(NormOld[k]), Strip(NormNew[k])))
    => /\ result.added_lines = << >>
       /\ result.removed_lines = << >>
       /\ Len(result.modified_lines) = 1
       /\ \A k \in DifferingPlaces(NormOld, NormNew) :
              result.modified_lines[1] = << Strip(NormOld[k]), Strip(NormNew[k]) >>
       /\ result.change_score.num * Len(NormNew) = 100 * result.change_score.den

\* The two raw texts have the same lines but one, and the two lines there
\* differ by letter case only.
OnlyCaseOfOneLine(old, new) ==
    /\ Len(SplitLines(old)) = Len(SplitLines(new))
    /\ Cardinality(DifferingPlaces(SplitLines(old), SplitLines(new))) = 1
    /\ \A k \in DifferingPlaces(SplitLines(old), SplitLines(new)) :
          Lower(SplitLines(old)[k]) = Lower(SplitLines(new)[k])

\* C11 -- Minor change is ignored: compare_content at threshold 1.0 (flags at
\* their defaults) on an 8-line document in which only the letter case of a
\* word of one line changes gives a change_score below the threshold and
\* has_changes = False.
C11_MinorChangeIgnored ==
    (/\ Returned
     /\ threshold = 1
     /\ ignore_whitespace
     /\ ~ignore_case
     /\ filter_dynamic
     /\ OnlyCaseOfOneLine(content_old, content_new))
    => /\ result.change_score.num < threshold * result.change_score.den
       /\ result.has_changes = FALSE

\* C12 -- Branch selection: every call goes from Unevaluated to exactly one
\* of Identical and Diffed, to Identical exactly when the raw inputs are
\* equal, whatever the flags; on the Identical branch nothing but the
\* fingerprints is computed, and raw-different inputs take the Diffed branch
\* even when they differ in white space, case or noise lines only.
C12_BranchSelection ==
    pc # "Unevaluated" =>
        /\ pc \in {"Identical", "Diffed"}
        /\ pc = "Identical" <=> content_old = content_new
        /\ pc = "Identical" => steps = << "hash" >>
        /\ pc = "Diffed" => \E k \in 1..Len(steps) : steps[k] = "diff"

\* The documents the diff is run on: normalized, and filtered if asked.
PreparedOld == PreparedLines(content_old, filter_dynamic, ignore_whitespace, ignore_case)

PreparedNew == PreparedLines(content_new, filter_dynamic, ignore_whitespace, ignore_case)

\* C13 -- Consistent normalization: two raw-different inputs whose normalized
\* (and, when enabled, filtered) line sequences are equal give empty added,
\* removed and modified lists, change_score = 0 and has_changes = False for
\* every threshold >= 0.
C13_ConsistentNormalization ==
    (/\ Returned
     /\ content_old # content_new
     /\ threshold >= 0
     /\ PreparedOld = PreparedNew)
    => /\ pc = "Diffed"
       /\ result.added_lines = << >>
       /\ result.removed_lines = << >>
       /\ result.modified_lines = << >>
       /\ result.change_score.num = 0
       /\ result.has_changes = FALSE

\* The two texts differ in case, in the doubled blank and in an empty line;
\* with both flags on they normalize to the same line and nothing is reported.
C13_Witness ==
    /\ pc = "Diffed"
    /\ ignore_case
    /\ ignore_whitespace
    /\ threshold = 0
    /\ Len(SplitLines(content_old)) # Len(SplitLines(content_new))
    /\ \E k \in 1..Len(SplitLines(content_old)) : SplitLines(content_old)[k] \notin Range(SplitLines(content_new))
    /\ PreparedOld = PreparedNew
    /\ PreparedOld # << >>
    /\ result.has_changes = FALSE
    /\ result.change_score.num = 0

\* The entries of the summary of the given kind.
PartsOfKind(kind) == SelectSeq(result.diff_summary, LAMBDA part : part.kind = kind)

\* One category of the summary: no entry at all for no item; else one heading
\* with the number of items, the items up to the limit, and one "and n -
\* limit more" entry exactly when there are more items than the limit.
SectionBounded(items, limit, heading, item, more) ==
    /\ Len(PartsOfKind(heading)) = (IF items = << >> THEN 0 ELSE 1)
    /\ \A k \in 1..Len(PartsOfKind(heading)) : PartsOfKind(heading)[k].n = Len(items)
    /\ Len(PartsOfKind(item)) = Min2(Len(items), limit)
    /\ Len(PartsOfKind(item)) <= limit
    /\ Len(PartsOfKind(more)) = (IF Len(items) > limit THEN 1 ELSE 0)
    /\ \A k \in 1..Len(PartsOfKind(more)) : PartsOfKind(more)[k].n = Len(items) - limit

\* C14 -- Bounded summary: on the diff branch diff_summary starts with the
\* score line, then lists at most 5 added lines, at most 5 removed lines and
\* at most 3 modified pairs; a category with n items above its limit L gets
\* one extra "and n - L more" line, one with at most L items none, and a
\* category with no item produces no section at all.
C14_BoundedSummary ==
    pc = "Diffed" =>
        /\ result.diff_summary[1].kind = "score"
        /\ Len(PartsOfKind("score")) = 1
        /\ SectionBounded(result.added_lines, 5, "added", "added_line", "added_more")
        /\ SectionBounded(result.removed_lines, 5, "removed", "removed_line", "removed_more")
        /\ SectionBounded(result.modified_lines, 3, "modified", "modified_pair", "modified_more")

\* Six added lines, no removed line and four modified pairs: two "more"
\* entries, each for 1, and no section for the removed lines.
C14_Witness ==
    /\ pc = "Diffed"
    /\ Len(result.added_lines) = 6
    /\ result.removed_lines = << >>
    /\ Len(result.modified_lines) = 4
    /\ Len(PartsOfKind("added_line")) = 5
    /\ Len(PartsOfKind("modified_pair")) = 3
    /\ PartsOfKind("added_more")[1].n = 1
    /\ PartsOfKind("modified_more")[1].n = 1
    /\ PartsOfKind("removed") = << >>

\* The concurrent call t has ended.
Ended(t) == threads[t].pc \in {"Identical", "Diffed", "Raised"}

\* C15 -- Safe concurrent use: compare never writes the comparator's
\* configuration, its inputs or any shared state, so in every interleaving of
\* concurrent calls on one comparator each call returns what it returns when
\* run alone.
C15_ConcurrentAsAlone ==
    \A t \in DOMAIN threads :
        Ended(t) =>
            /\ threads[t].pc =
                  OutcomeOf(threads[t].content_old, threads[t].content_new,
                            threads[t].filter_dynamic).pc
            /\ threads[t].result =
                  OutcomeOf(threads[t].content_old, threads[t].content_new,
                            threads[t].filter_dynamic).result

\* Call 1 has returned its modified pair while call 2, about other texts, is
\* between its diff and its pairing.
C15_Witness ==
    /\ DOMAIN threads = 1..MaxThreads
    /\ threads[1].pc = "Diffed"
    /\ Len(threads[1].result.modified_lines) = 1
    /\ threads[2].pc = "Pairing"
    /\ threads[2].content_old # threads[1].content_old
    /\ locals[2].removed # << >>

\* A ratio of at least 0.7.
AtLeastSevenTenths(r) == r.num * 10 >= 7 * r.den

\* Which removed line (row) is similar to which added line (column).
SimilarityTable(removed, added) ==
    [r \in 1..Len(removed) |->
        [k \in 1..Len(added) |-> AtLeastSevenTenths(Ratio(removed[r], added[k]))]]

\* The entries of s at the places not in marked, in order.
RECURSIVE Unmarked(_, _, _)
Unmarked(s, marked, k) ==
    IF k > Len(s) THEN << >>
    ELSE (IF k \in marked THEN << >> ELSE << s[k] >>) \o Unmarked(s, marked, k + 1)

\* The places of removed that f pairs (f sends the others to 0).
Paired(f) == {r \in DOMAIN f : f[r] # 0}

\* f pairs places of removed with places of added greedily: no added place is
\* used twice, a pair is similar, and every added place similar to a removed
\* line and before its partner (anywhere, if it has none) is taken by an
\* earlier removed line.
GreedyFirstMatch(f, similar, nAdded) ==
    /\ \A r1 \in Paired(f) : \A r2 \in Paired(f) : f[r1] = f[r2] => r1 = r2
    /\ \A r \in Paired(f) : similar[r][f[r]]
    /\ \A r \in DOMAIN f : \A k \in 1..nAdded :
          (similar[r][k] /\ (f[r] = 0 \/ k < f[r]))
              => \E q \in Paired(f) : q < r /\ f[q] = k

\* The pairs of f in the order of the removed places.
RECURSIVE PairsOf(_, _, _, _)
PairsOf(f, removed, added, r) ==
    IF r > Len(removed) THEN << >>
    ELSE (IF f[r] = 0 THEN << >> ELSE << << removed[r], added[f[r]] >> >>)
         \o PairsOf(f, removed, added, r + 1)

\* The result lists are what the pairing f of the working lists leaves.
ResultOfPairing(f, removed, added) ==
    /\ result.modified_lines = PairsOf(f, removed, added, 1)
    /\ result.removed_lines = Unmarked(removed, Paired(f), 1)
    /\ result.added_lines = Unmarked(added, {f[r] : r \in Paired(f)}, 1)

\* Some greedy first-match pairing of the working lists gives the result.
ResultIsGreedy(removed, added, similar) ==
    \E f \in [1..Len(removed) -> 0..Len(added)] :
        /\ GreedyFirstMatch(f, similar, Len(added))
        /\ ResultOfPairing(f, removed, added)

ResultIsGreedyFor(working) ==
    ResultIsGreedy(working.removed, working.added,
                   SimilarityTable(working.removed, working.added))

\* C16 -- Greedy first-match pairing: removed lines are visited in old order;
\* each is paired with the first added line, in new order, that is not yet
\* paired and whose similarity ratio is >= 0.7 (0.7 itself pairs); each
\* occurrence is used in at most one pair, modified_lines follows the order
\* of the removed lines, and what is left unpaired is exactly removed_lines
\* and added_lines.
C16_GreedyFirstMatch == pc = "Diffed" => ResultIsGreedyFor(DiffOfCall)

\* One removed line and two added lines, the first at ratio exactly 0.7 and
\* the second not similar: the first is paired, the second stays added.
C16_Witness ==
    /\ pc = "Diffed"
    /\ Len(DiffOfCall.removed) = 1
    /\ Len(DiffOfCall.added) = 2
    /\ Ratio(DiffOfCall.removed[1], DiffOfCall.added[1]).num * 10
           = 7 * Ratio(DiffOfCall.removed[1], DiffOfCall.added[1]).den
    /\ Len(result.modified_lines) = 1
    /\ result.modified_lines[1][2] = DiffOfCall.added[1]
    /\ result.added_lines = << DiffOfCall.added[2] >>

\* The reference pass from the removed place r on: the two arrays are fixed,
\* consumed holds the added places already paired, pairs the pairs of places
\* made so far.  k is the first added place not consumed and similar to
\* removed[r], 0 if there is none.
RECURSIVE ReferencePass(_, _, _, _, _)
ReferenceStep(removed, added, r, consumed, pairs, k) ==
    IF k = 0
    THEN ReferencePass(removed, added, r + 1, consumed, pairs)
    ELSE ReferencePass(removed, added, r + 1, consumed \cup {k}, Append(pairs, << r, k >>))

FirstFree(line, added, consumed, k) ==
    IF \E m \in k..Len(added) : m \notin consumed /\ AtLeastSevenTenths(Ratio(line, added[m]))
    THEN CHOOSE m \in k..Len(added) :
            /\ m \notin consumed /\ AtLeastSevenTenths(Ratio(line, added[m]))
            /\ \A n \in k..(m - 1) :
                  n \in consumed \/ ~AtLeastSevenTenths(Ratio(line, added[n]))
    ELSE 0

ReferencePass(removed, added, r, consumed, pairs) ==
    IF r > Len(removed) THEN pairs
    ELSE ReferenceStep(removed, added, r, consumed, pairs,
                       FirstFree(removed[r], added, consumed, 1))

\* The three lists the pairs of places stand for.
ListsOfPairs(removed, added, pairs) ==
    [removed  |-> Unmarked(removed, {pairs[p][1] : p \in 1..Len(pairs)}, 1),
     added    |-> Unmarked(added, {pairs[p][2] : p \in 1..Len(pairs)}, 1),
     modified |-> [p \in 1..Len(pairs) |-> << removed[pairs[p][1]], added[pairs[p][2]] >>]]

ReferenceLists(working) ==
    ListsOfPairs(working.removed, working.added,
                 ReferencePass(working.removed, working.added, 1, {}, << >>))

\* C17 -- The pairing loop as coded (snapshots of the lists, list.remove by
\* value) gives, for all working lists, duplicates included, the same
\* removed_lines, added_lines and modified_lines in the same order as the
\* reference single pass that marks consumed positions by index in two fixed
\* arrays.
C17_PairingRefinesReference ==
    pc = "Diffed" =>
        [removed  |-> result.removed_lines,
         added    |-> result.added_lines,
         modified |-> result.modified_lines] = ReferenceLists(DiffOfCall)

\* Working lists with the same text twice on either side: the first removed
\* occurrence is paired with the first added one, the second with the second.
C17_Witness ==
    /\ pc = "Diffed"
    /\ Len(DiffOfCall.removed) = 2
    /\ DiffOfCall.removed[1] = DiffOfCall.removed[2]
    /\ Len(DiffOfCall.added) = 2
    /\ DiffOfCall.added[1] = DiffOfCall.added[2]
    /\ Len(result.modified_lines) = 2
    /\ result.removed_lines = << >>

\* The lines of the old document the opcodes mark removed, in old order.
RECURSIVE MarkedRemoved(_, _, _)
MarkedRemoved(a, codes, k) ==
    IF k > Len(codes) THEN << >>
    ELSE (IF codes[k].tag \in {"replace", "delete"}
          THEN Slice(a, codes[k].i1, codes[k].i2) ELSE << >>)
         \o MarkedRemoved(a, codes, k + 1)

\* The lines of the new document the opcodes mark added, in new order.
RECURSIVE MarkedAdded(_, _, _)
MarkedAdded(b, codes, k) ==
    IF k > Len(codes) THEN << >>
    ELSE (IF codes[k].tag \in {"replace", "insert"}
          THEN Slice(b, codes[k].j1, codes[k].j2) ELSE << >>)
         \o MarkedAdded(b, codes, k + 1)

\* The lines of s at the places in P are, up to order, the lines of reported.
PlacesHold(s, P, reported) ==
    /\ Cardinality(P) = Len(reported)
    /\ \A x \in Range(reported) :
          Cardinality({k \in P : Strip(s[k]) = x}) = Occurrences(reported, x)

\* Deleting the reported lines from the two documents leaves equal sequences.
RestEqual(old, new, goneOld, goneNew) ==
    \E P \in SUBSET (1..Len(old)) : \E Q \in SUBSET (1..Len(new)) :
        /\ PlacesHold(old, P, goneOld)
        /\ PlacesHold(new, Q, goneNew)
        /\ Unmarked(old, P, 1) = Unmarked(new, Q, 1)

\* The working lists hold every marked line, and the result accounts for
\* every difference of the two documents.
AllReported(old, new, codes, working) ==
    /\ working.removed = Trimmed(MarkedRemoved(old, codes, 1))
    /\ working.added = Trimmed(MarkedAdded(new, codes, 1))
    /\ RestEqual(old, new,
                 result.removed_lines \o OldSides(result.modified_lines),
                 result.added_lines \o NewSides(result.modified_lines))

\* C18 -- No differing line goes unreported: every line the diff marks
\* removed is collected in old order and every line it marks added in new
\* order, whatever its text (lines beginning with '-', '--', '+', '++' or
\* '@@' included); so deleting from the filtered old sequence the lines
\* reported in removed_lines or as old side of a pair, and from the filtered
\* new sequence those reported in added_lines or as new side of a pair,
\* leaves two equal sequences.  (Lines are compared as reported, without
\* surrounding white space.)
C18_NothingUnreported ==
    pc = "Diffed" =>
        AllReported(PreparedOld, PreparedNew, GetOpcodes(PreparedOld, PreparedNew),
                    DiffOfCall)

\* Documents of repeated lines: up to MaxLines + 2 lines, each 'a' or 'b'.
RepeatedLines == { << "a" >>, << "b" >> }

RepeatedContents ==
    {Join(d) : d \in UNION {[1..k -> RepeatedLines] : k \in 0..(MaxLines + 2)}}

\* compare(old, new) with the default filter_dynamic.
InitRepeated ==
    /\ threshold \in ConcurrentThresholds
    /\ ignore_whitespace \in BOOLEAN
    /\ ignore_case = FALSE
    /\ filter_dynamic = TRUE
    /\ content_old \in RepeatedContents
    /\ content_new \in RepeatedContents
    /\ pc = "Unevaluated"
    /\ result = NoResult
    /\ calls = 0
    /\ earlier = {}
    /\ steps = << >>
    /\ threads = << >>
    /\ locals = << >>
    /\ NoAgent

SpecRepeated == InitRepeated /\ [][Next]_vars

\* The length of a longest common subsequence of a from i and b from j.
RECURSIVE LCS(_, _, _, _)
LCS(a, b, i, j) ==
    IF i > Len(a) \/ j > Len(b) THEN 0
    ELSE IF a[i] = b[j] THEN 1 + LCS(a, b, i + 1, j + 1)
    ELSE IF LCS(a, b, i + 1, j) >= LCS(a, b, i, j + 1)
         THEN LCS(a, b, i + 1, j) ELSE LCS(a, b, i, j + 1)

\* The marked lines are as few as a longest common subsequence allows.
MinimalDiff(old, new, working, longest) ==
    /\ Len(working.removed) + Len(working.added)
          = Len(old) + Len(new) - 2 * longest
    /\ longest = Len(old) => working.removed = << >>

\* C19 -- The line-level diff is a longest-common-subsequence diff: the
\* number of removed plus added lines before pairing is the least possible,
\* len(old) + len(new) - 2 * LCS(old, new); in particular when old is a
\* subsequence of new (contiguous or not) nothing is marked removed.
C19_LongestCommonSubsequence ==
    pc = "Diffed" =>
        MinimalDiff(PreparedOld, PreparedNew, DiffOfCall,
                    LCS(PreparedOld, PreparedNew, 1, 1))

\* Lines with 'Updated:', 'Last modified:' or 'Generated on' at the start or
\* after other text, and a plain line.
PrefixPool ==
    { << "a", "b" >>,
      << "u", "p", "d", "a", "t", "e", "d", ":", "y" >>,
      << "x", " ", "U", "p", "d", "a", "t", "e", "d", ":" >>,
      << "x", " ", "G", "e", "n", "e", "r", "a", "t", "e", "d", " ", "o", "n" >> }

InitPrefix ==
    /\ threshold \in ConcurrentThresholds
    /\ ignore_whitespace \in BOOLEAN
    /\ ignore_case \in BOOLEAN
    /\ filter_dynamic \in BOOLEAN
    /\ content_old \in Contents(PrefixPool)
    /\ content_new \in Contents(PrefixPool)
    /\ pc = "Unevaluated"
    /\ result = NoResult
    /\ calls = 0
    /\ earlier = {}
    /\ steps = << >>
    /\ threads = << >>
    /\ locals = << >>
    /\ NoAgent

SpecPrefix == InitPrefix /\ [][Next]_vars

\* A shape is a sequence of sets of lower-case characters; a text has the
\* shape at place i when its characters from i on, lowered, lie in the sets.
Letters(text) == [k \in 1..Len(text) |-> {LowerChar(text[k])}]

DigitsShape(n) == [k \in 1..n |-> Digits]

HasAt(line, i, shape) ==
    /\ i + Len(shape) - 1 <= Len(line)
    /\ \A k \in 1..Len(shape) : LowerChar(line[i + k - 1]) \in shape[k]

ContainsShape(line, shape) == \E i \in 1..Len(line) : HasAt(line, i, shape)

BeginsWith(line, shape) == HasAt(line, 1, shape)

\* The shapes a line must contain, and those it must begin with, to be noise.
ContainedShapes ==
    { DigitsShape(4) \o Letters(<<"-">>) \o DigitsShape(2) \o Letters(<<"-">>)
          \o DigitsShape(2),
      DigitsShape(2) \o Letters(<<"/">>) \o DigitsShape(2) \o Letters(<<"/">>)
          \o DigitsShape(4),
      DigitsShape(1) \o Letters(<<":">>) \o DigitsShape(2) \o Letters(<<":">>)
          \o DigitsShape(2),
      Letters(<<"s", "e", "s", "s", "i", "o", "n", " ", "i", "d", ":">>),
      Letters(<<"c", "o", "o", "k", "i", "e", ":">>),
      DigitsShape(1) \o Letters(<<" ", "v", "i", "s", "i", "t", "o", "r", " ",
                                  "o", "n", "l", "i", "n", "e">>),
      DigitsShape(1) \o Letters(<<" ", "v", "i", "s", "i", "t", "o", "r", "s", " ",
                                  "o", "n", "l", "i", "n", "e">>),
      Letters(<<"c", "o", "p", "y", "r", "i", "g", "h", "t", " ", "©", " ">>)
          \o DigitsShape(4) }

LeadingShapes ==
    { Letters(<<"u", "p", "d", "a", "t", "e", "d", ":">>),
      Letters(<<"l", "a", "s", "t", " ", "m", "o", "d", "i", "f", "i", "e", "d", ":">>),
      Letters(<<"g", "e", "n", "e", "r", "a", "t", "e", "d", " ", "o", "n">>) }

\* The stated rule: noise is contained, or stands at the start of the line.
StatedNoise(line) ==
    \/ \E shape \in ContainedShapes : ContainsShape(line, shape)
    \/ \E shape \in LeadingShapes : BeginsWith(line, shape)

KeptByRule(lines) ==
    IF filter_dynamic THEN SelectSeq(lines, LAMBDA line : ~StatedNoise(line))
    ELSE lines

\* C20 -- Filter predicate: with filter_dynamic = True a normalized line is
\* dropped if and only if, whatever the case of its letters, it contains an
\* ISO date, a DD/MM/YYYY date or an HH:MM:SS time, begins with 'Updated:',
\* 'Last modified:' or 'Generated on', contains 'Session ID:' or 'Cookie:',
\* contains a '<N> visitor(s) online' phrase or a copyright with a year; a
\* line that only contains 'Updated:', 'Last modified:' or 'Generated on'
\* after other text is kept; with filter_dynamic = False nothing is dropped.
C20_FilterPredicate ==
    pc = "Diffed" =>
        /\ PreparedOld = KeptByRule(NormOld)
        /\ PreparedNew = KeptByRule(NormNew)

\* ------------------------------------------------------------------------
\* The orchestrator: MonitorAgent.monitor_site on the shared sheet
\* ------------------------------------------------------------------------

\* Most runs of monitor_site.
MaxRuns == 3

\* The texts a page can hold when it is scraped.
Pages == { << "p" >>, << "q" >> }

\* content_hash='' of the row of a failed scrape.
NoHash == << >>

\* change_score = 5.0: the score monitor_site gives every changed page.
CHANGE_SCORE == 5

\* parsed.url: the URL the instruction names.
ParsedUrl(instruction) == Tail(instruction)

\* ScrapingLog(timestamp, url, instruction, status, content_hash, ...).to_row()
ScrapingLog(now, url, status, hash) ==
    [timestamp |-> now, url |-> url, status |-> status, content_hash |-> hash]

\* ComparisonLog(timestamp, url, instruction, has_changes, change_score, ...,
\* threshold, diff_summary, old_hash, new_hash).to_row()
ComparisonLog(now, url, changed, score, thr, oldHash, newHash) ==
    [timestamp |-> now, url |-> url, has_changes |-> changed, change_score |-> score,
     threshold |-> thr, old_hash |-> oldHash, new_hash |-> newHash]

\* ChangeNotification(url, instruction, change_score, threshold, ...)
ChangeNotification(url, score, thr) == [url |-> url, change_score |-> score, threshold |-> thr]

\* get_scraping_history: the rows from the newest to the oldest, those of the
\* URL are kept, whatever their status, until limit of them are found.
RECURSIVE HistoryFrom(_, _, _, _, _)
HistoryFrom(rows, k, url, limit, history) ==
    IF k = 0 THEN history
    ELSE IF rows[k].url = url
         THEN IF Len(history) + 1 >= limit THEN Append(history, rows[k])
              ELSE HistoryFrom(rows, k - 1, url, limit, Append(history, rows[k]))
         ELSE HistoryFrom(rows, k - 1, url, limit, history)

GetScrapingHistory(rows, url, limit) == HistoryFrom(rows, Len(rows), url, limit, << >>)

\* monitor_site(site_config) about to run; began is the time of the call.
StartedRun(site, now) ==
    [site |-> site, pc |-> "parse", url |-> << >>, content_hash |-> NoHash,
     began |-> now, stamp |-> -1, history |-> << >>, previous_hash |-> NoHash,
     returned |-> "running", made |-> << >>]

\* The run makes a call of a collaborator and goes on at the given place.
Made(run, call, place) == [run EXCEPT !.made = Append(@, call), !.pc = place]

\* return True / return False
Return(run, value) == [run EXCEPT !.pc = "done", !.returned = value]

\* A job of the scheduler fires: run_monitoring_for_site builds an agent of
\* its own and calls monitor_site for the site of the job.  The jobs of
\* different sites run at the same time, a job never twice at once.
Fire ==
    /\ Len(monitors) < MaxRuns
    /\ \E k \in 1..Len(sites) :
          /\ sites[k].active
          /\ \A r \in 1..Len(monitors) :
                monitors[r].site = sites[k] => monitors[r].pc = "done"
          /\ monitors' = Append(monitors, StartedRun(sites[k], clock))
    /\ UNCHANGED << log_tab, comparison_tab, outbox, clock >>
    /\ UNCHANGED << comparatorVars, mainVars >>

\* The same, the jobs running one after the other.
FireAlone ==
    /\ \A r \in 1..Len(monitors) : monitors[r].pc = "done"
    /\ Fire

\* Lines 152-158: parse_instruction; a failed parse returns False.
ParseStep(r) ==
    /\ monitors[r].pc = "parse"
    /\ \E success \in BOOLEAN :
          monitors' = [monitors EXCEPT ![r] =
              IF success
              THEN [Made(@, "parse_instruction", "scrape")
                       EXCEPT !.url = ParsedUrl(monitors[r].site.instruction)]
              ELSE Return(Made(@, "parse_instruction", "done"), "False")]
    /\ UNCHANGED << log_tab, comparison_tab, outbox, clock >>

\* Lines 166-190: scrape_url, then the MD5 of the page.
ScrapeStep(r) ==
    /\ monitors[r].pc = "scrape"
    /\ \/ monitors' = [monitors EXCEPT ![r] = Made(@, "scrape_url", "log_error")]
       \/ \E page \in Pages :
             monitors' = [monitors EXCEPT ![r] =
                 [Made(@, "scrape_url", "log_scraping") EXCEPT !.content_hash = Hash(page)]]
    /\ UNCHANGED << log_tab, comparison_tab, outbox, clock >>

\* log_scraping: the row is appended, or the write fails and log_scraping
\* returns False, which monitor_site does not look at.
LogScraping(row) ==
    /\ \E written \in BOOLEAN :
          log_tab' = IF written THEN Append(log_tab, row) ELSE log_tab
    /\ clock' = clock + 1

\* Lines 168-183: the failed scrape is logged and the run returns False.
LogErrorStep(r) ==
    /\ monitors[r].pc = "log_error"
    /\ LogScraping(ScrapingLog(clock, monitors[r].url, "error", NoHash))
    /\ monitors' = [monitors EXCEPT ![r] =
          Return([Made(@, "log_scraping", "done") EXCEPT !.stamp = clock], "False")]
    /\ UNCHANGED << comparison_tab, outbox >>

\* Lines 192-203: the scrape is logged.
LogScrapingStep(r) ==
    /\ monitors[r].pc = "log_scraping"
    /\ LogScraping(ScrapingLog(clock, monitors[r].url, "success", monitors[r].content_hash))
    /\ monitors' = [monitors EXCEPT ![r] =
          [Made(@, "log_scraping", "history") EXCEPT !.stamp = clock]]
    /\ UNCHANGED << comparison_tab, outbox >>

\* if len(history) < 2: first monitoring of the site.
FirstOnlyWhenEmpty(history) == Len(history) < 1

FirstMonitoring(history) == Len(history) < 2

\* Lines 209-229: with the history read, the run is a first monitoring (return
\* True), or it compares its hash with that of history[1].
WithHistory(run, history) ==
    IF FirstMonitoring(history)
    THEN Return([run EXCEPT !.history = history], "True")
    ELSE IF Len(history) < 2
         THEN Return([run EXCEPT !.history = history], "False")
         ELSE [run EXCEPT !.history = history,
                          !.previous_hash = history[2].content_hash,
                          !.pc = IF run.content_hash = history[2].content_hash
                                 THEN "log_same" ELSE "log_changed"]

\* get_scraping_history(url, limit=2); a failed read gives [].
HistoryStep(r) ==
    /\ monitors[r].pc = "history"
    /\ \E read \in BOOLEAN :
          monitors' = [monitors EXCEPT ![r] =
              WithHistory(Made(@, "get_scraping_history", "history"),
                          IF read THEN GetScrapingHistory(log_tab, @.url, 2) ELSE << >>)]
    /\ UNCHANGED << log_tab, comparison_tab, outbox, clock >>

\* log_comparison: the row is appended, or the write fails.
LogComparison(row) ==
    /\ \E written \in BOOLEAN :
          comparison_tab' = IF written THEN Append(comparison_tab, row) ELSE comparison_tab
    /\ clock' = clock + 1

\* Lines 229-248: equal hashes.
LogSameStep(r) ==
    /\ monitors[r].pc = "log_same"
    /\ LogComparison(ComparisonLog(clock, monitors[r].url, FALSE, 0,
                                   monitors[r].site.threshold,
                                   monitors[r].previous_hash, monitors[r].content_hash))
    /\ monitors' = [monitors EXCEPT ![r] = Return(Made(@, "log_comparison", "done"), "True")]
    /\ UNCHANGED << log_tab, outbox >>

\* if change_score >= threshold
Significant(score, thr) == score >= thr

\* Lines 250-282: different hashes.
LogChangedStep(r) ==
    /\ monitors[r].pc = "log_changed"
    /\ LogComparison(ComparisonLog(clock, monitors[r].url, TRUE, CHANGE_SCORE,
                                   monitors[r].site.threshold,
                                   monitors[r].previous_hash, monitors[r].content_hash))
    /\ monitors' = [monitors EXCEPT ![r] =
          IF Significant(CHANGE_SCORE, @.site.threshold)
          THEN Made(@, "log_comparison", "notify")
          ELSE Return(Made(@, "log_comparison", "done"), "True")]
    /\ UNCHANGED << log_tab, outbox >>

\* Lines 283-307: send_notification; the run returns True sent or not.
NotifyStep(r) ==
    /\ monitors[r].pc = "notify"
    /\ \E sent \in BOOLEAN :
          outbox' = IF sent
                    THEN Append(outbox, ChangeNotification(monitors[r].url, CHANGE_SCORE,
                                                           monitors[r].site.threshold))
                    ELSE outbox
    /\ monitors' = [monitors EXCEPT ![r] = Return(Made(@, "send_notification", "done"), "True")]
    /\ UNCHANGED << log_tab, comparison_tab, clock >>

\* One call of a collaborator by one run of monitor_site.
MonitorStep(r) ==
    /\ \/ ParseStep(r)
       \/ ScrapeStep(r)
       \/ LogErrorStep(r)
       \/ LogScrapingStep(r)
       \/ HistoryStep(r)
       \/ LogSameStep(r)
       \/ LogChangedStep(r)
       \/ NotifyStep(r)
    /\ UNCHANGED << comparatorVars, mainVars >>

\* The jobs run in the threads of the scheduler, at the same time.
NextMonitor == Fire \/ \E r \in 1..Len(monitors) : MonitorStep(r)

\* The jobs run one after the other.
NextMonitorAlone == FireAlone \/ \E r \in 1..Len(monitors) : MonitorStep(r)

\* No comparator in use.
NoComparator ==
    /\ threshold = 0
    /\ ignore_whitespace = TRUE
    /\ ignore_case = FALSE
    /\ content_old = << >>
    /\ content_new = << >>
    /\ filter_dynamic = TRUE
    /\ pc = "Unevaluated"
    /\ result = NoResult
    /\ calls = 0
    /\ earlier = {}
    /\ steps = << >>
    /\ threads = << >>
    /\ locals = << >>

\* schedule: "hourly"
Hourly == << "h", "o", "u", "r", "l", "y" >>

\* A site of sites.yaml.
Site(instruction, thr, active, schedule) ==
    [instruction |-> instruction, threshold |-> thr, active |-> active,
     schedule |-> schedule]

\* Thresholds below and at the score of a changed page.
MonitorThresholds == {1, 5}

\* Two sites that watch the same URL, the second with a threshold above the
\* score of a changed page.
MonitoredSites ==
    { << Site(<< "1", "u" >>, t, TRUE, Hourly), Site(<< "2", "u" >>, 2 * t, TRUE, Hourly) >> :
         t \in MonitorThresholds }

\* An agent and an empty sheet.
InitMonitor ==
    /\ NoComparator
    /\ sites \in MonitoredSites
    /\ log_tab = << >>
    /\ comparison_tab = << >>
    /\ outbox = << >>
    /\ clock = 0
    /\ monitors = << >>
    /\ main_pc = "idle"
    /\ exit_code = -1
    /\ monitored = << >>
    /\ jobs = << >>
    /\ job_count = 0

SpecMonitor == InitMonitor /\ [][NextMonitor]_vars

SpecMonitorAlone == InitMonitor /\ [][NextMonitorAlone]_vars

\* The run has read two rows of its URL.
ReadTwoRows(run) == Len(run.history) = 2

\* The newest row read is the one the run wrote, the second was written
\* before the run began.
OwnThenPrevious(run) ==
    /\ run.history[1].timestamp = run.stamp
    /\ run.history[2].timestamp < run.began

\* C21 -- Previous-version lookup: whenever monitor_site reads the two most
\* recent scraping rows of a URL, the newest row is the scrape this very run
\* has just logged and the second row is the scrape that preceded this run,
\* under every interleaving of runs for the same URL and also when the run's
\* own log_scraping write failed.
C21_PreviousVersionLookup ==
    \A r \in 1..Len(monitors) :
        ReadTwoRows(monitors[r]) => OwnThenPrevious(monitors[r])

\* The calls of collaborators the run has made.
Calls(run) == Range(run.made)

\* C22 -- Notification rule: monitor_site sends a notification only when
\* the content hash differs from that of the previous version and the change
\* score is strictly greater than the threshold of the site; with a score
\* equal to the threshold, or with equal hashes, none is sent.
C22_NotificationRule ==
    \A r \in 1..Len(monitors) :
        "send_notification" \in Calls(monitors[r]) =>
            /\ monitors[r].content_hash # monitors[r].previous_hash
            /\ CHANGE_SCORE > monitors[r].site.threshold

\* The rows of the Log tab the run wrote.
OwnRows(run) == SelectSeq(log_tab, LAMBDA row : row.timestamp = run.stamp)

\* The scrape of the run succeeded, and the Log tab holds no row of its URL
\* but the one the run wrote.
FirstOfUrl(run) ==
    /\ run.content_hash # NoHash
    /\ run.stamp >= 0
    /\ \A k \in 1..Len(log_tab) :
          log_tab[k].url = run.url => log_tab[k].timestamp = run.stamp

\* The scrape of the run failed.
ScrapeFailed(run) ==
    /\ "scrape_url" \in Calls(run)
    /\ run.content_hash = NoHash
    /\ run.stamp >= 0

\* C23 -- First run: on the first monitoring of a URL (no earlier scraping
\* row for it) monitor_site logs the scrape, makes no comparison, writes no
\* comparison row, sends no notification and returns True; on a failed
\* scrape it logs one error row, writes no comparison row, sends no
\* notification and returns False.
C23_FirstRun ==
    \A r \in 1..Len(monitors) :
        /\ (monitors[r].pc = "done" /\ FirstOfUrl(monitors[r])) =>
              /\ monitors[r].made = << "parse_instruction", "scrape_url", "log_scraping",
                                       "get_scraping_history" >>
              /\ \A k \in 1..Len(OwnRows(monitors[r])) :
                    OwnRows(monitors[r])[k]
                       = ScrapingLog(monitors[r].stamp, monitors[r].url, "success",
                                     monitors[r].content_hash)
              /\ monitors[r].returned = "True"
        /\ (monitors[r].pc = "done" /\ ScrapeFailed(monitors[r])) =>
              /\ monitors[r].made = << "parse_instruction", "scrape_url", "log_scraping" >>
              /\ Len(OwnRows(monitors[r])) <= 1
              /\ \A k \in 1..Len(OwnRows(monitors[r])) :
                    OwnRows(monitors[r])[k]
                       = ScrapingLog(monitors[r].stamp, monitors[r].url, "error", NoHash)
              /\ monitors[r].returned = "False"

\* A first run that wrote its row has returned, and so has a run whose
\* scrape failed.
C23_Witness ==
    \E r \in 1..Len(monitors) : \E f \in 1..Len(monitors) :
        /\ monitors[r].pc = "done"
        /\ FirstOfUrl(monitors[r])
        /\ Len(OwnRows(monitors[r])) = 1
        /\ monitors[f].pc = "done"
        /\ ScrapeFailed(monitors[f])

\* The successful scrapes of the URL logged before the run logged its own.
EarlierSuccesses(run) ==
    SelectSeq(log_tab, LAMBDA row : /\ row.url = run.url
                                    /\ row.status = "success"
                                    /\ row.timestamp < run.stamp)

\* The run has reported a change: a comparison row with has_changes = True,
\* or a notification.
ReportedChange(run) ==
    \/ /\ "log_comparison" \in Calls(run)
       /\ run.content_hash # run.previous_hash
    \/ "send_notification" \in Calls(run)

\* The hash of the run differs from that of the last successful scrape
\* before it.
DiffersFromLastSuccess(run, successes) ==
    /\ successes # << >>
    /\ successes[Len(successes)].content_hash # run.content_hash

\* C30 -- Failed scrapes are never a baseline: over any sequence of runs of
\* monitor_site for one URL, a comparison row with has_changes = True is
\* written, and a notification sent, only if the current content hash
\* differs from that of the most recent earlier successful scrape of the
\* URL; a run that follows a failed scrape of unchanged content reports no
\* change.
C30_FailedScrapeNoBaseline ==
    \A r \in 1..Len(monitors) :
        ReportedChange(monitors[r]) =>
            DiffersFromLastSuccess(monitors[r], EarlierSuccesses(monitors[r]))

\* ------------------------------------------------------------------------
\* The configuration, MonitorAgent.run and the scheduler
\* ------------------------------------------------------------------------

\* load_sites_config(self, config_path): the parameters after self.
LoadSitesConfigParameters == << "config_path" >>

\* self.load_sites_config(): the arguments run() passes.
RunArguments == << >>

\* agent.load_sites_config('config/sites.yaml'): those setup_scheduler() passes.
SetupArguments == << "config/sites.yaml" >>

\* [s for s in sites if s.get('active', True)]
ActiveSites(all) == SelectSeq(all, LAMBDA site : site.active)

\* The call of load_sites_config with the given arguments: Python raises
\* TypeError unless they are as many as the parameters; the body returns the
\* active sites of the file.
LoadSitesConfig(arguments, all) ==
    IF Len(arguments) # Len(LoadSitesConfigParameters)
    THEN [raised |-> "TypeError", sites |-> << >>]
    ELSE [raised |-> "none", sites |-> ActiveSites(all)]

\* run(): with the sites loaded, monitor_site is called for each in order
\* (verdicts[k] is what the k-th call returns) and the errors are counted.
RunOutcome(loaded, verdicts) ==
    IF loaded.raised # "none"
    THEN [pc |-> "RunRaised", exit_code |-> -1, monitored |-> << >>]
    ELSE IF loaded.sites = << >>
         THEN [pc |-> "Returned", exit_code |-> 1, monitored |-> << >>]
         ELSE [pc |-> "Returned",
               exit_code |-> IF \A k \in 1..Len(loaded.sites) : verdicts[k] THEN 0 ELSE 1,
               monitored |-> [k \in 1..Len(loaded.sites) |->
                                 [site |-> loaded.sites[k], returned |-> verdicts[k]]]]

RunEnds(outcome) ==
    /\ main_pc' = outcome.pc
    /\ exit_code' = outcome.exit_code
    /\ monitored' = outcome.monitored
    /\ UNCHANGED << sites, jobs, job_count >>
    /\ UNCHANGED << comparatorVars, monitorVars >>

\* agent.run()
Run ==
    /\ main_pc = "idle"
    /\ \E verdicts \in [1..Len(sites) -> BOOLEAN] :
          RunEnds(RunOutcome(LoadSitesConfig(RunArguments, sites), verdicts))

\* sub in s
Contains(s, sub) ==
    \E i \in 1..(Len(s) - Len(sub) + 1) : SubSeq(s, i, i + Len(sub) - 1) = sub

\* s.split(sep)
RECURSIVE SplitOn(_, _)
SplitOn(s, sep) ==
    IF \A k \in 1..Len(s) : s[k] # sep THEN << s >>
    ELSE LET i == CHOOSE k \in 1..Len(s) : s[k] = sep /\ \A j \in 1..(k - 1) : s[j] # sep
         IN  << SubSeq(s, 1, i - 1) >> \o SplitOn(SubSeq(s, i + 1, Len(s)), sep)

\* s.split()
SplitWords(s) ==
    IF CollapseWhitespace(s) = << >> THEN << >> ELSE SplitOn(CollapseWhitespace(s), " ")

\* int(text) raises ValueError unless the text is a number; here: digits.
IsNumber(text) == text # << >> /\ \A k \in 1..Len(text) : text[k] \in Digits

RECURSIVE IntOf(_)
IntOf(text) ==
    IF text = << >> THEN 0
    ELSE 10 * IntOf(SubSeq(text, 1, Len(text) - 1))
         + ((CHOOSE d \in 1..10 : DigitChar[d] = text[Len(text)]) - 1)

\* A field of a cron trigger: not given, a number, an expression '*/n' or the
\* name of a day.
Unset == [kind |-> "unset", value |-> 0, text |-> << >>]

Named(text) == [kind |-> "name", value |-> 0, text |-> text]

Number(n) == [kind |-> "int", value |-> n, text |-> << >>]

Every(text) == [kind |-> "every", value |-> 0, text |-> text]

Cron(day, hour, minute) == [day_of_week |-> day, hour |-> hour, minute |-> minute]

\* What parse_schedule returns: a dict, a list of dicts, or an exception.
OneTrigger(cron) == [raised |-> "none", list |-> FALSE, params |-> << cron >>]

Raises(exception) == [raised |-> exception, list |-> FALSE, params |-> << >>]

DEFAULT_HOUR == 10

\* hour, minute = time_part.split(':'), then int(hour) and int(minute)
AtTime(day, time_part) ==
    IF Len(SplitOn(time_part, ":")) # 2 THEN Raises("ValueError")
    ELSE IF ~IsNumber(SplitOn(time_part, ":")[1]) \/ ~IsNumber(SplitOn(time_part, ":")[2])
         THEN Raises("ValueError")
         ELSE OneTrigger(Cron(day, Number(IntOf(SplitOn(time_part, ":")[1])),
                              Number(IntOf(SplitOn(time_part, ":")[2]))))

DayNames ==
    { << "m", "o", "n", "d", "a", "y" >>, << "t", "u", "e", "s", "d", "a", "y" >>, << "w", "e", "d", "n", "e", "s", "d", "a", "y" >>, << "t", "h", "u", "r", "s", "d", "a", "y" >>, << "f", "r", "i", "d", "a", "y" >>, << "s", "a", "t", "u", "r", "d", "a", "y" >>, << "s", "u", "n", "d", "a", "y" >> }

\* day_map.get(parts[0]): the first three letters of a day, else None.
DayOf(word) == IF word \in DayNames THEN Named(SubSeq(word, 1, 3)) ELSE Unset

\* parse_schedule, on the string already lowered and stripped
ParseLowered(s) ==
    IF StartsWith(s, << "d", "a", "i", "l", "y" >>)
    THEN IF Contains(s, << " " >>) THEN AtTime(Unset, SplitOn(s, " ")[2])
         ELSE OneTrigger(Cron(Unset, Number(DEFAULT_HOUR), Number(0)))
    ELSE IF s = << "t", "w", "i", "c", "e", "-", "d", "a", "i", "l", "y" >>
    THEN [raised |-> "none", list |-> TRUE,
          params |-> << Cron(Unset, Number(9), Number(0)), Cron(Unset, Number(18), Number(0)) >>]
    ELSE IF s = Hourly
    THEN OneTrigger(Cron(Unset, Unset, Number(0)))
    ELSE IF Contains(s, << "e", "v", "e", "r", "y" >>) /\ Contains(s, << "h", "o", "u", "r" >>)
    THEN IF Len(SplitWords(s)) < 2 THEN Raises("IndexError")
         ELSE OneTrigger(Cron(Unset, Every(SplitWords(s)[2]), Unset))
    ELSE IF \E day \in DayNames : Contains(s, day)
    THEN IF Len(SplitWords(s)) > 1
         THEN AtTime(DayOf(SplitWords(s)[1]), SplitWords(s)[2])
         ELSE OneTrigger(Cron(DayOf(SplitWords(s)[1]), Number(DEFAULT_HOUR), Number(0)))
    ELSE OneTrigger(Cron(Unset, Number(DEFAULT_HOUR), Number(0)))

\* parse_schedule(schedule_str)
ParseSchedule(schedule_str) == ParseLowered(Strip(Lower(schedule_str)))

\* CronTrigger(**params) raises ValueError for a value outside its field.
ValidField(field, most) ==
    CASE field.kind = "unset" -> TRUE
      [] field.kind = "int" -> field.value <= most
      [] field.kind = "every" -> IsNumber(field.text) /\ IntOf(field.text) >= 1

ValidTrigger(cron) == ValidField(cron.hour, 23) /\ ValidField(cron.minute, 59)

\* f"site_{idx}" and f"site_{idx}_job_{i}"
JobId(idx) == << "s", "i", "t", "e", "_" >> \o NumStr(idx)

JobIdOfList(idx, i) == << "s", "i", "t", "e", "_" >> \o NumStr(idx) \o << "_", "j", "o", "b", "_" >> \o NumStr(i)

Job(id, idx, site, cron) == [id |-> id, idx |-> idx, site |-> site, trigger |-> cron]

\* The jobs one site adds: one per dict of the list, or one.
JobsOfSite(idx, site, parsed) ==
    IF parsed.list
    THEN [i \in 1..Len(parsed.params) |->
             Job(JobIdOfList(idx, i - 1), idx, site, parsed.params[i])]
    ELSE << Job(JobId(idx), idx, site, parsed.params[1]) >>

\* The loop of setup_scheduler over the loaded sites from the k-th on; an
\* exception of parse_schedule or of CronTrigger leaves the function.
RECURSIVE SetupFrom(_, _, _)
SetupFrom(loaded, k, added) ==
    IF k > Len(loaded) THEN [pc |-> "Scheduled", jobs |-> added, job_count |-> Len(added)]
    ELSE IF ~loaded[k].active THEN SetupFrom(loaded, k + 1, added)
    ELSE IF ParseSchedule(loaded[k].schedule).raised # "none"
    THEN [pc |-> "SetupRaised", jobs |-> added, job_count |-> Len(added)]
    ELSE IF \E i \in 1..Len(ParseSchedule(loaded[k].schedule).params) :
               ~ValidTrigger(ParseSchedule(loaded[k].schedule).params[i])
    THEN [pc |-> "SetupRaised", jobs |-> added, job_count |-> Len(added)]
    ELSE SetupFrom(loaded, k + 1,
                   added \o JobsOfSite(k - 1, loaded[k], ParseSchedule(loaded[k].schedule)))

SetupOutcome(loaded) ==
    IF loaded.raised # "none" THEN [pc |-> "SetupRaised", jobs |-> << >>, job_count |-> 0]
    ELSE SetupFrom(loaded.sites, 1, << >>)

SetupEnds(outcome) ==
    /\ main_pc' = outcome.pc
    /\ jobs' = outcome.jobs
    /\ job_count' = outcome.job_count
    /\ UNCHANGED << sites, exit_code, monitored >>
    /\ UNCHANGED << comparatorVars, monitorVars >>

\* setup_scheduler()
SetupScheduler ==
    /\ main_pc = "idle"
    /\ SetupEnds(SetupOutcome(LoadSitesConfig(SetupArguments, sites)))

\* The schedules of the sites: the forms parse_schedule names, one in capitals,
\* one it does not know and a time without minutes.
Schedules ==
    { << "d", "a", "i", "l", "y", " ", "1", "0", ":", "0", "0" >>,
      << "t", "w", "i", "c", "e", "-", "d", "a", "i", "l", "y" >>,
      << "H", "o", "u", "r", "l", "y" >>,
      << "e", "v", "e", "r", "y", " ", "6", " ", "h", "o", "u", "r", "s" >>,
      << "m", "o", "n", "d", "a", "y", " ", "1", "4", ":", "3", "0" >>,
      << "T", "w", "i", "c", "e", "-", "D", "a", "i", "l", "y", " " >>,
      << "w", "e", "e", "k", "l", "y" >>,
      << "d", "a", "i", "l", "y", " ", "9" >> }

\* Most sites in sites.yaml.
MaxSites == 2

ConfiguredSite == {Site(<< "1", "u" >>, 1, active, schedule) : active \in BOOLEAN, schedule \in Schedules}

Configurations == UNION {[1..n -> ConfiguredSite] : n \in 0..MaxSites}

\* An agent, the configuration read, nothing run yet.
InitConfigured ==
    /\ NoComparator
    /\ sites \in Configurations
    /\ log_tab = << >>
    /\ comparison_tab = << >>
    /\ outbox = << >>
    /\ clock = 0
    /\ monitors = << >>
    /\ main_pc = "idle"
    /\ exit_code = -1
    /\ monitored = << >>
    /\ jobs = << >>
    /\ job_count = 0

SpecRun == InitConfigured /\ [][Run]_vars

SpecSchedule == InitConfigured /\ [][SetupScheduler]_vars

\* C24 -- run(): run loads the active sites, calls monitor_site once for
\* each of them in configuration order, whatever the calls before returned,
\* and returns 0 exactly when every call returned True, 1 when at least one
\* failed or when there is no site to monitor.
C24_RunExitCode ==
    main_pc \in {"Returned", "RunRaised"} =>
        /\ main_pc = "Returned"
        /\ Len(monitored) = Len(ActiveSites(sites))
        /\ \A k \in 1..Len(monitored) : monitored[k].site = ActiveSites(sites)[k]
        /\ exit_code = IF /\ monitored # << >>
                          /\ \A k \in 1..Len(monitored) : monitored[k].returned
                       THEN 0 ELSE 1

\* The jobs added for the site at the given place of the active sites.
JobsOf(idx) == SelectSeq(jobs, LAMBDA job : job.idx = idx)

TwiceDaily(site) == Strip(Lower(site.schedule)) = << "t", "w", "i", "c", "e", "-", "d", "a", "i", "l", "y" >>

\* The jobs of a site are the ones stated: two, at 09:00 and 18:00, for a
\* 'twice-daily' schedule, else one.
JobsAsStated(site, added) ==
    /\ \A i \in 1..Len(added) : added[i].site = site
    /\ IF TwiceDaily(site)
       THEN /\ Len(added) = 2
            /\ added[1].trigger = Cron(Unset, Number(9), Number(0))
            /\ added[2].trigger = Cron(Unset, Number(18), Number(0))
       ELSE Len(added) = 1

\* C25 -- Scheduler setup: setup_scheduler registers no job for a site with
\* active = false, exactly two jobs (09:00 and 18:00) for a site whose
\* schedule is 'twice-daily' and exactly one job for every other active
\* site; the job ids are pairwise distinct and the reported job count is
\* the number of registered jobs.
C25_SchedulerSetup ==
    main_pc \in {"Scheduled", "SetupRaised"} =>
        /\ main_pc = "Scheduled"
        /\ \A j \in 1..Len(jobs) :
              /\ jobs[j].site.active
              /\ jobs[j].idx \in 0..(Len(ActiveSites(sites)) - 1)
        /\ \A k \in 1..Len(ActiveSites(sites)) :
              JobsAsStated(ActiveSites(sites)[k], JobsOf(k - 1))
        /\ \A i \in 1..Len(jobs) : \A j \in 1..Len(jobs) :
              i # j => jobs[i].id # jobs[j].id
        /\ job_count = Len(jobs)

\* a is a subsequence of b: its entries are in b, in the same order.
IsSubsequence(a, b) == LCS(a, b, 1, 1) = Len(a)

\* The reported lines are lines of the compared sequence.
DrawnFrom(compared, alone, sides) ==
    /\ \A k \in 1..Len(alone) : alone[k] \in Range(compared)
    /\ \A k \in 1..Len(sides) : sides[k] \in Range(compared)
    /\ IsSubsequence(alone, compared)

\* C26 -- Result lines come from the compared sequences: for every setting
\* of ignore_whitespace and ignore_case, every entry of removed_lines and
\* every old side of a modified pair is textually an element of the
\* normalized, filtered old line sequence, and removed_lines is a
\* subsequence of it; likewise added_lines and the new sides with respect to
\* the normalized, filtered new line sequence.
C26_LinesFromComparedSequences ==
    pc = "Diffed" =>
        /\ DrawnFrom(PreparedOld, result.removed_lines, OldSides(result.modified_lines))
        /\ DrawnFrom(PreparedNew, result.added_lines, NewSides(result.modified_lines))

\* C27 -- A modified pair is a real edit: in every ComparisonResult each pair
\* (old_line, new_line) of modified_lines has old_line different from
\* new_line; a document whose lines are only reordered, or only re-indented,
\* never gives a pair with two identical sides.
C27_ModifiedPairIsEdit ==
    Returned =>
        \A k \in 1..Len(result.modified_lines) :
            result.modified_lines[k][1] # result.modified_lines[k][2]

\* No line of removed is similar to a line of added.
NoneSimilar(removed, added) ==
    \A r \in 1..Len(removed) : \A k \in 1..Len(added) :
        ~AtLeastSevenTenths(Ratio(removed[r], added[k]))

\* C28 -- Pairing is maximal: after the pairing pass no line left in
\* removed_lines has a similarity ratio >= 0.7 with a line left in
\* added_lines, for every pair of working lists (duplicates included).
C28_PairingMaximal ==
    pc = "Diffed" => NoneSimilar(result.removed_lines, result.added_lines)

\* Of two equal removed lines one is paired and one is left, next to an added
\* line it is not similar to.
C28_Witness ==
    /\ pc = "Diffed"
    /\ Len(DiffOfCall.removed) = 2
    /\ DiffOfCall.removed[1] = DiffOfCall.removed[2]
    /\ Len(result.modified_lines) = 1
    /\ Len(result.removed_lines) = 1
    /\ Len(result.added_lines) = 1

\* C29 -- Bounded counts: in every ComparisonResult
\* len(removed_lines) + len(modified_lines) <= total_lines_old and
\* len(added_lines) + len(modified_lines) <= total_lines_new, hence
\* 0 <= change_score <= 200; the score can exceed 100 (every line replaced
\* by a dissimilar one gives 200) but never 200.
C29_BoundedCounts ==
    Returned =>
        /\ Len(result.removed_lines) + Len(result.modified_lines) <= result.total_lines_old
        /\ Len(result.added_lines) + Len(result.modified_lines) <= result.total_lines_new
        /\ result.change_score.num >= 0
        /\ result.change_score.num <= 200 * result.change_score.den

\* Every line replaced by a dissimilar one: the score is 200.
C29_Witness ==
    /\ pc = "Diffed"
    /\ result.total_lines_old = result.total_lines_new
    /\ Len(result.removed_lines) = result.total_lines_old
    /\ Len(result.added_lines) = result.total_lines_new
    /\ result.total_lines_old > 0
    /\ result.change_score.num = 200 * result.change_score.den

====
